---- MODULE Spec2Model ----
(***************************************************************************)
(* Account, authentication and rate-limiting subsystem of the recording    *)
(* server (src/secure_camera_server/server.py).                            *)
(*                                                                         *)
(* Strings are sequences of one-character strings, so that strip(),        *)
(* lower(), title(), isdigit() and the e-mail pattern are computed.        *)
(* Time is counted in ticks of 12 hours: one day is Day = 2 ticks.  The    *)
(* database clock (CURRENT_TIMESTAMP) is UTC; the process clock            *)
(* (datetime.now()) is local time, tzOffset ticks ahead of UTC.            *)
(* Each request is served by its own thread: every database statement or   *)
(* file-system call of a handler is one atomic step of the process.        *)
(***************************************************************************)
EXTENDS Integers, Sequences, FiniteSets, TLC

\* ------------------------------------------------------------------ bounds
MaxTime == 3          \* the UTC clock runs over 0..MaxTime
MaxLog == 6           \* rows of login_attempts in the rate-limiter runs
MaxLogTally == 7      \* rows of login_attempts in the tally runs
MaxLogAccounts == 1   \* rows of login_attempts in the account runs
MaxLogTouch == 3      \* rows of login_attempts in the last-login runs
MaxLogGuess == 7      \* rows of login_attempts in the passcode-guessing runs
MaxRows == 2          \* rows of recording_sessions in the failing-DELETE runs
MaxQuotaChunks == 81  \* chunks the client of the quota runs uploads

\* ------------------------------------------------------- program constants
Day == 2              \* timedelta(days=1), in ticks of 12 hours
MaxAttempts == 5      \* failed attempts allowed per window
PasscodeLen == 6      \* length of a passcode

Procs == {"t1", "t2"}             \* request threads
TzOffsets == {-1, 0, 1}           \* local time minus UTC: UTC-12, UTC, UTC+12
NULL == "NULL"                    \* SQL NULL / Python None

\* ----------------------------------------------------------------- strings
AsciiDigits == {"0", "1", "2", "3", "4", "5", "6", "7", "8", "9"}
\* characters other than 0-9 for which str.isdigit() is True; "u0663" stands
\* for the one character ARABIC-INDIC DIGIT THREE
UnicodeDigits == {"u0663"}
LowerLetters == {"a", "b", "c", "i", "n", "o", "x"}
UpperLetters == {"A", "B", "C", "I", "N", "O", "X"}
Whitespace == {" "}

LowerChar(c) ==
    CASE c = "A" -> "a" [] c = "B" -> "b" [] c = "C" -> "c" [] c = "I" -> "i"
      [] c = "N" -> "n" [] c = "O" -> "o" [] c = "X" -> "x" [] OTHER -> c

UpperChar(c) ==
    CASE c = "a" -> "A" [] c = "b" -> "B" [] c = "c" -> "C" [] c = "i" -> "I"
      [] c = "n" -> "N" [] c = "o" -> "O" [] c = "x" -> "X" [] OTHER -> c

IsAlpha(c) == c \in LowerLetters \cup UpperLetters
IsAlnum(c) == IsAlpha(c) \/ c \in AsciiDigits

\* str.lower()
Lower(s) == [i \in 1..Len(s) |-> LowerChar(s[i])]

\* str.title(): the first letter of every run of letters in upper case, the
\* others in lower case
Title(s) ==
    [i \in 1..Len(s) |->
        IF i = 1 \/ ~IsAlpha(s[IF i = 1 THEN 1 ELSE i - 1])
        THEN UpperChar(s[i]) ELSE LowerChar(s[i])]

\* str.strip(): leading and trailing whitespace removed
Strip(s) ==
    LET keep == {i \in 1..Len(s) : s[i] \notin Whitespace} IN
    IF keep = {} THEN <<>>
    ELSE LET lo == CHOOSE i \in keep : \A j \in keep : i <= j
             hi == CHOOSE i \in keep : \A j \in keep : j <= i
         IN SubSeq(s, lo, hi)

\* str.isdigit(): non-empty and every character a (Unicode) digit
IsDigitStr(s) ==
    Len(s) > 0 /\ \A i \in 1..Len(s) : s[i] \in AsciiDigits \cup UnicodeDigits

\* email.split('@')[0]
EmailPrefix(e) ==
    LET ats == {i \in 1..Len(e) : e[i] = "@"} IN
    IF ats = {} THEN e
    ELSE SubSeq(e, 1, (CHOOSE i \in ats : \A j \in ats : i <= j) - 1)

IsLocalChar(c) == IsAlnum(c) \/ c \in {".", "_", "%", "+", "-"}
IsDomainChar(c) == IsAlnum(c) \/ c \in {".", "-"}

\* re.match(r'^[a-zA-Z0-9._%+-]+@[a-zA-Z0-9.-]+\.[a-zA-Z]{2,}$', email)
is_valid_email(email) ==
    \E at \in 1..Len(email) :
        /\ email[at] = "@"
        /\ at > 1
        /\ \A i \in 1..(at - 1) : IsLocalChar(email[i])
        /\ \E dot \in (at + 2)..Len(email) :
              /\ email[dot] = "."
              /\ \A i \in (at + 1)..(dot - 1) : IsDomainChar(email[i])
              /\ Len(email) - dot >= 2
              /\ \A i \in (dot + 1)..Len(email) : IsAlpha(email[i])

\* len(password) != 6 or not password.isdigit()  (negated)
IsSixDigits(password) == Len(password) = PasscodeLen /\ IsDigitStr(password)

\* ------------------------------------------------------------- credentials
\* PBKDF2-HMAC-SHA256(password, salt, 100000) as an injective function of
\* (password, salt)
hash_password(password, salt) == <<password, salt>>

\* a verification that does not depend on the salt
verify_password_unsalted(password, password_hash, salt) ==
    password_hash[1] = password

verify_password(password, password_hash, salt) ==
    hash_password(password, salt) = password_hash

\* ------------------------------------------------------------------- state
VARIABLES
    users,                          \* table users: a set of rows
    created_with,                   \* history: user_id -> the passcode its row was created with
    user_folders,                   \* directories UPLOAD_FOLDER/<user_id>
    login_attempts,                 \* table login_attempts: rows in id order
    recording_sessions,             \* table recording_sessions: rows in id order
    session_folders,                \* directories UPLOAD_FOLDER/<user_id>/<session_id>
    chunk_files,                    \* the files in the session directories
    saved,                          \* history: <<user_id, session_id, chunk_number>> of the saves that ran to their end
    rmtree_failed,                  \* history: <<user_id, session_id>> of the removals that raised
    backup_exists,                  \* the tables *_old_backup exist
    users_old_pin_backup,           \* table users_old_pin_backup: rows in id order
    recording_sessions_old_backup,  \* table recording_sessions_old_backup
    now,                            \* the UTC clock
    tzOffset,                       \* the process's local time minus UTC
    th                              \* per request thread: position and locals

vars == <<users, created_with, user_folders, login_attempts, recording_sessions,
          session_folders, chunk_files, saved, rmtree_failed,
          backup_exists, users_old_pin_backup, recording_sessions_old_backup,
          now, tzOffset, th>>

uploads == <<session_folders, chunk_files, saved, rmtree_failed>>

dbLegacy == <<backup_exists, users_old_pin_backup, recording_sessions_old_backup>>

\* sample strings
S_a == <<"a", "@", "b", ".", "i", "o">>             \* a@b.io
S_A == <<"A", "@", "b", ".", "i", "o">>             \* A@b.io
S_c == <<"c", "@", "b", ".", "i", "o">>             \* c@b.io
S_bad == <<"a", "b">>                               \* no @
P_1 == <<"1", "2", "3", "4", "5", "6">>             \* 123456
P_2 == <<"6", "5", "4", "3", "2", "1">>             \* 654321
P_1sp == <<"1", "2", "3", "4", "5", "6", " ">>      \* "123456 "
P_short == <<"1", "2", "3", "4", "5">>              \* 12345
P_alpha == <<"a", "b", "c", "x", "x", "x">>         \* abcxxx
P_uni == <<"1", "2", "u0663", "4", "5", "6">>       \* 12?456, ? a non-ASCII digit
PIN_1 == <<"1", "2", "3", "4">>                     \* legacy PIN 1234
PIN_2 == <<"9", "9", "9", "9">>                     \* a PIN of no legacy account
N_n == <<"N">>                                      \* a full name
SID_1 == <<"a">>                                    \* a session id
SID_2 == <<"b">>                                    \* another session id
B_1 == <<"x">>                                      \* the bytes of a video file
B_2 == <<"y", "z">>                                 \* the bytes of another one
K_1 == <<"1">>                                      \* chunk numbers
K_2 == <<"2">>
K_999 == <<"9", "9", "9">>
K_1000 == <<"1", "0", "0", "0">>
K_x == <<"x">>                                      \* not a number
J_ok == <<"a", ".", "b", ".", "c", "x", "x", "x", "x", "x">>   \* a transaction_jws
J_bad == <<"a", ".", "b", "x", "x", "x", "x", "x", "x", "x">>  \* one of two parts
E_1 == "2027-01-01"                                 \* an expires_at
\* the addresses of the demo accounts; x@b.io stands for
\* reviewer@righttorecord.com, x-a@b.io for reviewer-free@..., x-b@b.io for
\* reviewer-premium@..., x-c@b.io for reviewer-pro@...
D_rev == <<"x", "@", "b", ".", "i", "o">>
D_free == <<"x", "-", "a", "@", "b", ".", "i", "o">>
D_premium == <<"x", "-", "b", "@", "b", ".", "i", "o">>
D_pro == <<"x", "-", "c", "@", "b", ".", "i", "o">>
N_demo == <<"A", " ", "X">>                         \* Apple Reviewer

UserIds == {"u1", "u2", "u3", "u4"}  \* values of secrets.token_urlsafe(16)
Salts == {"s1", "s2"}                \* values of secrets.token_hex(32)

\* the archived PIN accounts and their sessions, when the database was
\* created by the PIN-based version of the server
LegacyUsers ==
    <<[user_id |-> "L1", pin_hash |-> hash_password(PIN_1, "s0"), salt |-> "s0"]>>
LegacySessions ==
    <<[user_id |-> "L1", session_id |-> "old1", created_at |-> 0, chunk_count |-> 2]>>

Idle ==
    [pc |-> "idle", op |-> NULL, email |-> <<>>, password |-> <<>>,
     full_name |-> <<>>, user |-> NULL, remaining |-> NULL, resp |-> NULL,
     session_id |-> <<>>, chunk_number |-> <<>>, file |-> <<>>,
     filename |-> <<>>, file_size |-> 0, total_storage_seconds |-> 0,
     video_count |-> 0, sessions |-> <<>>, tier |-> NULL,
     expires_at |-> NULL, storage_limit |-> 0, i |-> 0]

Init ==
    /\ users = {}
    /\ created_with = << >>
    /\ user_folders = {}
    /\ login_attempts = <<>>
    /\ recording_sessions = <<>>
    /\ session_folders = {}
    /\ chunk_files = {}
    /\ saved = {}
    /\ rmtree_failed = {}
    /\ backup_exists \in BOOLEAN
    /\ users_old_pin_backup = IF backup_exists THEN LegacyUsers ELSE <<>>
    /\ recording_sessions_old_backup = IF backup_exists THEN LegacySessions ELSE <<>>
    /\ now = 0
    /\ tzOffset \in TzOffsets
    /\ th = [p \in Procs |-> Idle]

\* datetime.now(): the process's local wall clock
LocalNow == now + tzOffset

Max(a, b) == IF a >= b THEN a ELSE b

\* ------------------------------------------------------------ rate limiter
\* the count without the filter on success
CountAllSince(log, email, cutoff) ==
    Cardinality({i \in 1..Len(log) :
        /\ log[i].email = email
        /\ log[i].attempt_time > cutoff})

\* SELECT COUNT(*) FROM login_attempts
\*   WHERE email = ? AND attempt_time > ? AND success = 0
CountFailedSince(log, email, cutoff) ==
    Cardinality({i \in 1..Len(log) :
        /\ log[i].email = email
        /\ log[i].attempt_time > cutoff
        /\ log[i].success = 0})

\* the count both queries make: failed attempts of the e-mail stamped after
\* datetime.now() - timedelta(days=1)
FailedInLastDay(log, email) ==
    LET twenty_four_hours_ago == LocalNow - Day
    IN CountFailedSince(log, Lower(email), twenty_four_hours_ago)

check_rate_limit(email) ==
    LET failed_attempts == FailedInLastDay(login_attempts, email)
    IN failed_attempts < MaxAttempts

get_remaining_attempts(email) ==
    LET failed_attempts == FailedInLastDay(login_attempts, email)
    IN Max(0, MaxAttempts - failed_attempts)

\* the row INSERTed by record_login_attempt; attempt_time DEFAULT CURRENT_TIMESTAMP
AttemptRow(email, success) ==
    [email |-> Lower(email), attempt_time |-> now,
     success |-> IF success THEN 1 ELSE 0]

record_login_attempt(email, success) ==
    login_attempts' = Append(login_attempts, AttemptRow(email, success))

\* --------------------------------------------------------- credential store
\* a lookup that tells a wrong passcode from an unknown e-mail
AuthLookupTelling(us, email, password) ==
    LET rows == {u \in us : u.email = email} IN
    IF rows = {} THEN NULL
    ELSE IF verify_password(password, (CHOOSE u \in rows : TRUE).password_hash,
                            (CHOOSE u \in rows : TRUE).salt)
    THEN (CHOOSE u \in rows : TRUE).user_id
    ELSE "wrong_password"

\* SELECT ... FROM users WHERE email = ?  then verify_password
AuthLookup(us, email, password) ==
    LET rows == {u \in us : u.email = email} IN
    IF rows # {} /\ (LET user_data == CHOOSE u \in rows : TRUE
                     IN verify_password(password, user_data.password_hash,
                                        user_data.salt))
    THEN (CHOOSE u \in rows : TRUE).user_id
    ELSE NULL

get_user_by_email_password(email, password) == AuthLookup(users, email, password)

\* UPDATE users SET last_login = CURRENT_TIMESTAMP WHERE user_id = ?
update_last_login(user_id) ==
    users' = {IF u.user_id = user_id THEN [u EXCEPT !.last_login = now] ELSE u
              : u \in users}

\* ---------------------------------------------------------------- threads
Goto(p, pc) == th' = [th EXCEPT ![p].pc = pc]

\* return jsonify(...): the handler ends with this response
Reply(p, resp) ==
    th' = [th EXCEPT ![p] = [Idle EXCEPT !.pc = "done", !.op = th[p].op,
                                         !.email = th[p].email,
                                         !.tier = th[p].tier, !.resp = resp]]

Resp(status, kind) ==
    [status |-> status, kind |-> kind, remaining |-> NULL, rate_limited |-> NULL,
     user_id |-> NULL, body |-> NULL]

\* login_user lines 453-457, 469-477, 486-495: the three answers of /login
LimitedResp(remaining) ==
    [Resp(429, "RateLimited") EXCEPT !.remaining = remaining, !.rate_limited = TRUE]
OkResp(user_id) == [Resp(200, "Ok") EXCEPT !.user_id = user_id]
UnauthorizedResp(remaining) ==
    [Resp(401, "Unauthorized") EXCEPT !.remaining = remaining,
                                      !.rate_limited = (remaining = 0)]

\* the response has been sent and the thread serves the next request
Respond(p) ==
    /\ th[p].pc = "done"
    /\ th' = [th EXCEPT ![p] = Idle]
    /\ UNCHANGED <<users, created_with, user_folders, login_attempts,
                   recording_sessions, dbLegacy, uploads, now, tzOffset>>

\* time passes
Tick ==
    /\ now < MaxTime
    /\ now' = now + 1
    /\ UNCHANGED <<users, created_with, user_folders, login_attempts,
                   recording_sessions, dbLegacy, uploads, tzOffset, th>>

\* ------------------------------------------------------------------ /login
\* lines 436-447: parse the request
LoginStart(p, raw_email, raw_password) ==
    /\ th[p].pc = "idle"
    /\ LET email == Lower(Strip(raw_email))
           password == Strip(raw_password)
       IN IF email = <<>> \/ password = <<>>
          THEN th' = [th EXCEPT ![p] = [Idle EXCEPT !.pc = "done", !.op = "login",
                                     !.resp = Resp(400, "InvalidInput")]]
          ELSE th' = [th EXCEPT ![p] = [Idle EXCEPT !.pc = "login_check",
                                     !.op = "login", !.email = email,
                                     !.password = password]]
    /\ UNCHANGED <<users, created_with, user_folders, login_attempts,
                   recording_sessions, dbLegacy, uploads, now, tzOffset>>

\* line 450: if not check_rate_limit(email, client_ip)
LoginCheck(p) ==
    /\ th[p].pc = "login_check"
    /\ IF check_rate_limit(th[p].email)
       THEN Goto(p, "login_auth")
       ELSE Goto(p, "login_limited")
    /\ UNCHANGED <<users, created_with, user_folders, login_attempts,
                   recording_sessions, dbLegacy, uploads, now, tzOffset>>

\* lines 451-457: the rate-limited response
LoginLimited(p) ==
    /\ th[p].pc = "login_limited"
    /\ LET remaining == get_remaining_attempts(th[p].email) IN
       Reply(p, LimitedResp(remaining))
    /\ UNCHANGED <<users, created_with, user_folders, login_attempts,
                   recording_sessions, dbLegacy, uploads, now, tzOffset>>

\* line 460: user = get_user_by_email_password(email, password)
LoginAuth(p) ==
    /\ th[p].pc = "login_auth"
    /\ th' = [th EXCEPT ![p].pc = "login_record",
                        ![p].user = get_user_by_email_password(th[p].email,
                                                               th[p].password)]
    /\ UNCHANGED <<users, created_with, user_folders, login_attempts,
                   recording_sessions, dbLegacy, uploads, now, tzOffset>>

\* lines 464 and 480: record_login_attempt(email, success=...)
LoginRecord(p) ==
    /\ th[p].pc = "login_record"
    /\ record_login_attempt(th[p].email, th[p].user # NULL)
    /\ IF th[p].user # NULL
       THEN Goto(p, "login_touch")
       ELSE Goto(p, "login_remaining")
    /\ UNCHANGED <<users, created_with, user_folders, recording_sessions,
                   dbLegacy, uploads, now, tzOffset>>

\* lines 465-477: update_last_login and the response of a successful login
LoginTouch(p) ==
    /\ th[p].pc = "login_touch"
    /\ update_last_login(th[p].user)
    /\ Reply(p, OkResp(th[p].user))
    /\ UNCHANGED <<created_with, user_folders, login_attempts,
                   recording_sessions, dbLegacy, uploads, now, tzOffset>>

\* lines 481-495: the response of a failed login
LoginRemaining(p) ==
    /\ th[p].pc = "login_remaining"
    /\ LET remaining == get_remaining_attempts(th[p].email) IN
       Reply(p, UnauthorizedResp(remaining))
    /\ UNCHANGED <<users, created_with, user_folders, login_attempts,
                   recording_sessions, dbLegacy, uploads, now, tzOffset>>

\* login_user lines 449-495 for one request run without interleaving, on the
\* tables us and log: the response and the attempt log it leaves
LoginOutcome(us, log, email, password) ==
    LET user == AuthLookup(us, email, password)
        recorded == Append(log, [email |-> Lower(email), attempt_time |-> now,
                                 success |-> IF user # NULL THEN 1 ELSE 0])
    IN IF ~(FailedInLastDay(log, email) < MaxAttempts)
       THEN [resp |-> LimitedResp(Max(0, MaxAttempts - FailedInLastDay(log, email))),
             log |-> log]
       ELSE IF user # NULL
       THEN [resp |-> OkResp(user), log |-> recorded]
       ELSE [resp |-> UnauthorizedResp(
                          Max(0, MaxAttempts - FailedInLastDay(recorded, email))),
             log |-> recorded]

\* --------------------------------------------------------- /check_attempts
\* lines 763-770: parse the request
CheckAttemptsStart(p, raw_email) ==
    /\ th[p].pc = "idle"
    /\ LET email == Lower(Strip(raw_email)) IN
       IF email = <<>>
       THEN th' = [th EXCEPT ![p] = [Idle EXCEPT !.pc = "done",
                                     !.op = "check_attempts",
                                     !.resp = Resp(400, "InvalidInput")]]
       ELSE th' = [th EXCEPT ![p] = [Idle EXCEPT !.pc = "ca_remaining",
                                     !.op = "check_attempts", !.email = email]]
    /\ UNCHANGED <<users, created_with, user_folders, login_attempts,
                   recording_sessions, dbLegacy, uploads, now, tzOffset>>

\* line 772: remaining = get_remaining_attempts(email)
CheckAttemptsRemaining(p) ==
    /\ th[p].pc = "ca_remaining"
    /\ th' = [th EXCEPT ![p].pc = "ca_limited",
                        ![p].remaining = get_remaining_attempts(th[p].email)]
    /\ UNCHANGED <<users, created_with, user_folders, login_attempts,
                   recording_sessions, dbLegacy, uploads, now, tzOffset>>

\* lines 773-779: is_rate_limited = not check_rate_limit(email), the response
CheckAttemptsLimited(p) ==
    /\ th[p].pc = "ca_limited"
    /\ LET is_rate_limited == ~check_rate_limit(th[p].email) IN
       Reply(p, [Resp(200, "Ok") EXCEPT !.remaining = th[p].remaining,
                                         !.rate_limited = is_rate_limited])
    /\ UNCHANGED <<users, created_with, user_folders, login_attempts,
                   recording_sessions, dbLegacy, uploads, now, tzOffset>>

\* ----------------------------------------------------------- require_auth
\* lines 358-370: parse the request; the e-mail is stripped, not lower-cased
AuthRequestStart(p, raw_email, raw_password) ==
    /\ th[p].pc = "idle"
    /\ LET email == Strip(raw_email)
           password == Strip(raw_password)
       IN IF email = <<>> \/ password = <<>> \/ ~IsSixDigits(password)
          THEN th' = [th EXCEPT ![p] = [Idle EXCEPT !.pc = "done", !.op = "auth",
                                     !.resp = Resp(400, "InvalidInput")]]
          ELSE th' = [th EXCEPT ![p] = [Idle EXCEPT !.pc = "auth_lookup",
                                     !.op = "auth", !.email = email,
                                     !.password = password]]
    /\ UNCHANGED <<users, created_with, user_folders, login_attempts,
                   recording_sessions, dbLegacy, uploads, now, tzOffset>>

\* lines 372-374: user = get_user_by_email_password(email, password)
AuthRequestLookup(p) ==
    /\ th[p].pc = "auth_lookup"
    /\ LET user == get_user_by_email_password(th[p].email, th[p].password) IN
       IF user = NULL
       THEN Reply(p, Resp(401, "Unauthorized"))
       ELSE th' = [th EXCEPT ![p].pc = "auth_touch", ![p].user = user]
    /\ UNCHANGED <<users, created_with, user_folders, login_attempts,
                   recording_sessions, dbLegacy, uploads, now, tzOffset>>

\* lines 377-381: update_last_login, then the gated handler runs for the user
AuthRequestTouch(p) ==
    /\ th[p].pc = "auth_touch"
    /\ update_last_login(th[p].user)
    /\ Reply(p, [Resp(200, "Ok") EXCEPT !.user_id = th[p].user])
    /\ UNCHANGED <<created_with, user_folders, login_attempts,
                   recording_sessions, dbLegacy, uploads, now, tzOffset>>

\* require_auth lines 372-381 on the table us: the 401 or the user handed to
\* the gated handler
AuthOutcome(us, email, password) ==
    LET user == AuthLookup(us, email, password)
    IN IF user = NULL THEN Resp(401, "Unauthorized") ELSE OkResp(user)

\* --------------------------------------------------------------- /register
\* the row INSERTed into users; the other columns take their defaults
UserRow(user_id, email, full_name, password_hash, salt) ==
    [user_id |-> user_id, email |-> email, full_name |-> full_name,
     password_hash |-> password_hash, salt |-> salt, last_login |-> NULL,
     subscription_tier |-> "free", subscription_expires_at |-> NULL,
     storage_used |-> 0]

\* SELECT id FROM users WHERE email = ?
EmailRegistered(email) == \E u \in users : u.email = email

\* the table without the constraint
EmailTakenUnchecked(email) == FALSE

\* users.email TEXT UNIQUE NOT NULL: the INSERT of a second row with the
\* e-mail raises sqlite3.IntegrityError
EmailTaken(email) == \E u \in users : u.email = email

\* generate_user_id(): a token no row or thread holds
FreshIds == UserIds \ ({u.user_id : u \in users} \cup {th[q].user : q \in Procs})
generate_user_id == CHOOSE id \in FreshIds : TRUE

\* register_user lines 397-416 and create_user lines 189-202: validation and
\* the duplicate check
RegisterStart(p, raw_full_name, raw_email, raw_password) ==
    /\ th[p].pc = "idle"
    /\ LET given_name == Strip(raw_full_name)
           email == Lower(Strip(raw_email))
           password == Strip(raw_password)
           full_name == IF given_name = <<>> THEN Title(EmailPrefix(email))
                        ELSE given_name
           error == CASE email = <<>> \/ password = <<>> -> "InvalidInput"
                      [] ~is_valid_email(email) -> "InvalidInput"
                      [] ~IsSixDigits(password) -> "InvalidInput"
                      [] EmailRegistered(email) -> "Conflict"
                      [] OTHER -> NULL
       IN IF error # NULL
          THEN th' = [th EXCEPT ![p] = [Idle EXCEPT !.pc = "done", !.op = "register",
                                     !.resp = Resp(400, error)]]
          ELSE /\ FreshIds # {}
               /\ th' = [th EXCEPT ![p] = [Idle EXCEPT !.pc = "reg_insert",
                                     !.op = "register", !.email = email,
                                     !.password = password,
                                     !.full_name = full_name,
                                     !.user = generate_user_id]]
    /\ UNCHANGED <<users, created_with, user_folders, login_attempts,
                   recording_sessions, dbLegacy, uploads, now, tzOffset>>

\* create_user lines 205-216 and 226-228: INSERT INTO users, commit; the
\* UNIQUE constraint on email raises IntegrityError
RegisterInsert(p, salt) ==
    /\ th[p].pc = "reg_insert"
    /\ IF EmailTaken(th[p].email)
       THEN /\ Reply(p, Resp(400, "CreateFailed"))
            /\ UNCHANGED <<users, created_with>>
       ELSE /\ users' = users \cup
                  {UserRow(th[p].user, th[p].email, th[p].full_name,
                           hash_password(th[p].password, salt), salt)}
            /\ created_with' = created_with @@ (th[p].user :> th[p].password)
            /\ Goto(p, "reg_mkdir")
    /\ UNCHANGED <<user_folders, login_attempts, recording_sessions, dbLegacy, uploads,
                   now, tzOffset>>

\* create_user lines 219-224: the user's upload directory, the 201 response
RegisterMkdir(p) ==
    /\ th[p].pc = "reg_mkdir"
    /\ user_folders' = user_folders \cup {th[p].user}
    /\ Reply(p, [Resp(201, "Created") EXCEPT !.user_id = th[p].user])
    /\ UNCHANGED <<users, created_with, login_attempts, recording_sessions,
                   dbLegacy, uploads, now, tzOffset>>

\* os.makedirs raises OSError: register_user lines 427-430
RegisterMkdirFail(p) ==
    /\ th[p].pc = "reg_mkdir"
    /\ Reply(p, Resp(500, "Failed"))
    /\ UNCHANGED <<users, created_with, user_folders, login_attempts,
                   recording_sessions, dbLegacy, uploads, now, tzOffset>>

\* --------------------------------------------------- /migrate_pin_to_email
\* a scan that takes the first archived row whatever the PIN
LegacyMatchAny(pin) ==
    IF users_old_pin_backup = <<>> THEN NULL
    ELSE users_old_pin_backup[1].user_id

\* lines 1066-1075: the first archived row whose digest matches the PIN
LegacyMatch(pin) ==
    LET hits == {i \in 1..Len(users_old_pin_backup) :
                    hash_password(pin, users_old_pin_backup[i].salt)
                        = users_old_pin_backup[i].pin_hash}
    IN IF hits = {} THEN NULL
       ELSE users_old_pin_backup[CHOOSE i \in hits : \A j \in hits : i <= j].user_id

\* lines 1041-1085: parse, find the archived account, the duplicate check
MigrateStart(p, raw_pin, raw_email, raw_password, raw_full_name) ==
    /\ th[p].pc = "idle"
    /\ LET pin == Strip(raw_pin)
           email == Lower(Strip(raw_email))
           password == Strip(raw_password)
           full_name == Strip(raw_full_name)
           migrated_user_id == LegacyMatch(pin)
           error == CASE <<>> \in {pin, email, password, full_name} -> "InvalidInput"
                      [] ~backup_exists -> "NotFound"
                      [] migrated_user_id = NULL -> "NotFound"
                      [] EmailRegistered(email) -> "Conflict"
                      [] OTHER -> NULL
       IN IF error # NULL
          THEN th' = [th EXCEPT ![p] = [Idle EXCEPT !.pc = "done", !.op = "migrate",
                                     !.resp = Resp(IF error = "NotFound" THEN 404
                                                   ELSE 400, error)]]
          ELSE th' = [th EXCEPT ![p] = [Idle EXCEPT !.pc = "mig_insert",
                                     !.op = "migrate", !.email = email,
                                     !.password = password,
                                     !.full_name = full_name,
                                     !.user = migrated_user_id]]
    /\ UNCHANGED <<users, created_with, user_folders, login_attempts,
                   recording_sessions, dbLegacy, uploads, now, tzOffset>>

\* a migration that copies no session row
LegacySessionRowsNone(user_id) == <<>>

\* lines 1098-1103: the archived session rows of the account
LegacySessionRows(user_id) ==
    SelectSeq(recording_sessions_old_backup, LAMBDA r : r.user_id = user_id)

\* an INSERT that meets no constraint on user_id
UserIdTakenUnchecked(user_id) == FALSE

\* user_id TEXT UNIQUE NOT NULL (line 54): an INSERT of a user_id that a
\* row of users holds raises sqlite3.IntegrityError
UserIdTaken(user_id) == \E u \in users : u.user_id = user_id

\* lines 1088-1119: INSERT INTO users with the archived user_id, copy the
\* session rows, commit; a UNIQUE violation (email or user_id) raises and
\* nothing is committed
MigrateInsert(p, salt) ==
    /\ th[p].pc = "mig_insert"
    /\ IF EmailTaken(th[p].email) \/ UserIdTaken(th[p].user)
       THEN /\ Reply(p, Resp(500, "Failed"))
            /\ UNCHANGED <<users, created_with, recording_sessions>>
       ELSE /\ users' = users \cup
                  {UserRow(th[p].user, th[p].email, th[p].full_name,
                           hash_password(th[p].password, salt), salt)}
            /\ created_with' = created_with @@ (th[p].user :> th[p].password)
            /\ recording_sessions' =
                  recording_sessions \o LegacySessionRows(th[p].user)
            /\ Reply(p, [Resp(201, "Created") EXCEPT !.user_id = th[p].user])
    /\ UNCHANGED <<user_folders, login_attempts, dbLegacy, uploads, now, tzOffset>>

\* ---------------------------------------------- /check_migration_available
\* lines 1125-1144: the archive table exists, the number of its rows
CheckMigration(p) ==
    /\ th[p].pc = "idle"
    /\ LET old_user_count == IF backup_exists THEN Len(users_old_pin_backup)
                              ELSE 0
       IN th' = [th EXCEPT ![p] =
              [Idle EXCEPT !.pc = "done", !.op = "check_migration",
                           !.resp = [Resp(200, "Ok") EXCEPT
                               !.body = [migration_available |->
                                             backup_exists /\ old_user_count > 0,
                                         old_users_count |-> old_user_count]]]]
    /\ UNCHANGED <<users, created_with, user_folders, login_attempts,
                   recording_sessions, dbLegacy, uploads, now, tzOffset>>

\* ------------------------------------------------------------ chunk files
\* code points of the characters, the order of str comparison
CharCode(c) ==
    CASE c = " " -> 32 [] c = "%" -> 37 [] c = "+" -> 43 [] c = "-" -> 45
      [] c = "." -> 46 [] c = "/" -> 47
      [] c = "0" -> 48 [] c = "1" -> 49 [] c = "2" -> 50 [] c = "3" -> 51
      [] c = "4" -> 52 [] c = "5" -> 53 [] c = "6" -> 54 [] c = "7" -> 55
      [] c = "8" -> 56 [] c = "9" -> 57 [] c = "@" -> 64
      [] c = "A" -> 65 [] c = "B" -> 66 [] c = "C" -> 67 [] c = "I" -> 73
      [] c = "N" -> 78 [] c = "O" -> 79 [] c = "X" -> 88 [] c = "_" -> 95
      [] c = "a" -> 97 [] c = "b" -> 98 [] c = "c" -> 99 [] c = "h" -> 104
      [] c = "i" -> 105 [] c = "k" -> 107 [] c = "m" -> 109 [] c = "n" -> 110
      [] c = "o" -> 111 [] c = "u" -> 117 [] c = "v" -> 118 [] c = "x" -> 120
      [] c = "u0663" -> 1635

\* s < t for two str values
StrLess(s, t) ==
    \E k \in 1..(Len(t)) :
        /\ \A i \in 1..(k - 1) : i <= Len(s) /\ s[i] = t[i]
        /\ \/ k = Len(s) + 1
           \/ k <= Len(s) /\ CharCode(s[k]) < CharCode(t[k])

\* list.sort() of a list holding the names in S
RECURSIVE SortedNames(_)
SortedNames(S) ==
    IF S = {} THEN <<>>
    ELSE LET first == CHOOSE x \in S : \A y \in S \ {x} : StrLess(x, y)
         IN <<first>> \o SortedNames(S \ {first})

DigitValue(c) ==
    CASE c = "0" -> 0 [] c = "1" -> 1 [] c = "2" -> 2 [] c = "3" -> 3
      [] c = "4" -> 4 [] c = "5" -> 5 [] c = "6" -> 6 [] c = "7" -> 7
      [] c = "8" -> 8 [] c = "9" -> 9 [] c = "u0663" -> 3

\* int(s) does not raise ValueError: an optional sign and one or more digits
IsIntStr(s) ==
    LET body == IF Len(s) > 0 /\ s[1] \in {"+", "-"} THEN Tail(s) ELSE s
    IN IsDigitStr(body)

RECURSIVE DigitsValue(_)
DigitsValue(s) ==
    IF s = <<>> THEN 0
    ELSE 10 * DigitsValue(SubSeq(s, 1, Len(s) - 1)) + DigitValue(s[Len(s)])

\* int(s)
IntOf(s) ==
    IF s[1] = "-" THEN 0 - DigitsValue(Tail(s))
    ELSE IF s[1] = "+" THEN DigitsValue(Tail(s))
    ELSE DigitsValue(s)

\* str.zfill(width): zeros on the left, after a leading sign
Zfill(s, width) ==
    LET zeros == [i \in 1..(width - Len(s)) |-> "0"] IN
    IF Len(s) >= width THEN s
    ELSE IF Len(s) > 0 /\ s[1] \in {"+", "-"} THEN <<s[1]>> \o zeros \o Tail(s)
    ELSE zeros \o s

DigitChar(d) ==
    CASE d = 0 -> "0" [] d = 1 -> "1" [] d = 2 -> "2" [] d = 3 -> "3"
      [] d = 4 -> "4" [] d = 5 -> "5" [] d = 6 -> "6" [] d = 7 -> "7"
      [] d = 8 -> "8" [] d = 9 -> "9"

\* datetime.now().strftime("%Y%m%d_%H%M%S"): the local clock reading in a
\* fixed number of digits (readings count from one tick before UTC 0); two
\* readings within one second give the same text
Strftime(t) == <<DigitChar((t + 1) \div 10), DigitChar((t + 1) % 10)>>

\* f"chunk_{chunk_number.zfill(3)}_{timestamp}.mov"
ChunkFilename(chunk_number, timestamp) ==
    <<"c", "h", "u", "n", "k", "_">> \o Zfill(chunk_number, 3) \o <<"_">>
        \o timestamp \o <<".", "m", "o", "v">>

\* f.endswith('.mov')
EndsWithMov(name) ==
    Len(name) >= 4 /\ SubSeq(name, Len(name) - 3, Len(name)) = <<".", "m", "o", "v">>

\* os.listdir(session_path) filtered by the suffix: the names of the files
VideoFiles(user_id, session_id) ==
    {f.name : f \in {g \in chunk_files :
        /\ g.user_id = user_id
        /\ g.session_id = session_id
        /\ EndsWithMov(g.name)}}

\* the file at a path; content is the bytes on disk, whole tells that a save
\* ran to its end, chunk_number is the form field of the upload that wrote it
ChunkFile(user_id, session_id, name, content, whole, chunk_number) ==
    [user_id |-> user_id, session_id |-> session_id, name |-> name,
     content |-> content, whole |-> whole, chunk_number |-> chunk_number]

\* open(filepath, "wb") and the write: the file at the path holds the content
WriteFile(file) ==
    chunk_files' = {g \in chunk_files :
                       ~(/\ g.user_id = file.user_id
                         /\ g.session_id = file.session_id
                         /\ g.name = file.name)} \cup {file}

\* the row INSERTed into recording_sessions; the other columns take their
\* defaults
SessionRow(user_id, session_id) ==
    [user_id |-> user_id, session_id |-> session_id, created_at |-> now,
     chunk_count |-> 0]

SessionRows(user_id, session_id) ==
    {i \in 1..Len(recording_sessions) :
        /\ recording_sessions[i].user_id = user_id
        /\ recording_sessions[i].session_id = session_id}

\* ----------------------------------------------------------------- /upload
\* lines 525-532: the credentials of the form
UploadStart(p, raw_email, raw_password, file, raw_session_id, raw_chunk_number) ==
    /\ th[p].pc = "idle"
    /\ LET email == Lower(Strip(raw_email))
           password == Strip(raw_password)
       IN IF email = <<>> \/ password = <<>>
          THEN th' = [th EXCEPT ![p] = [Idle EXCEPT !.pc = "done", !.op = "upload",
                                     !.resp = Resp(400, "InvalidInput")]]
          ELSE th' = [th EXCEPT ![p] = [Idle EXCEPT !.pc = "up_auth",
                                     !.op = "upload", !.email = email,
                                     !.password = password, !.file = file,
                                     !.session_id = Strip(raw_session_id),
                                     !.chunk_number = Strip(raw_chunk_number)]]
    /\ UNCHANGED <<users, created_with, user_folders, login_attempts,
                   recording_sessions, dbLegacy, uploads, now, tzOffset>>

\* lines 535-559: authenticate, then the video file (<<>>: the form has
\* none) and the session id
UploadAuth(p) ==
    /\ th[p].pc = "up_auth"
    /\ LET user == get_user_by_email_password(th[p].email, th[p].password) IN
       IF user = NULL THEN Reply(p, Resp(401, "Unauthorized"))
       ELSE IF th[p].file = <<>> \/ th[p].session_id = <<>>
       THEN Reply(p, Resp(400, "InvalidInput"))
       ELSE th' = [th EXCEPT ![p].pc = "up_exists", ![p].user = user]
    /\ UNCHANGED <<users, created_with, user_folders, login_attempts,
                   recording_sessions, dbLegacy, uploads, now, tzOffset>>

\* line 567: if not os.path.exists(session_folder)
UploadExists(p) ==
    /\ th[p].pc = "up_exists"
    /\ IF <<th[p].user, th[p].session_id>> \in session_folders
       THEN Goto(p, "up_save")
       ELSE Goto(p, "up_mkdir")
    /\ UNCHANGED <<users, created_with, user_folders, login_attempts,
                   recording_sessions, dbLegacy, uploads, now, tzOffset>>

\* line 568: os.makedirs(session_folder) raises FileExistsError when the
\* directory is there; lines 621-623 answer 500
UploadMkdir(p) ==
    /\ th[p].pc = "up_mkdir"
    /\ IF <<th[p].user, th[p].session_id>> \in session_folders
       THEN /\ Reply(p, Resp(500, "Failed"))
            /\ UNCHANGED <<user_folders, session_folders>>
       ELSE /\ user_folders' = user_folders \cup {th[p].user}
            /\ session_folders' =
                  session_folders \cup {<<th[p].user, th[p].session_id>>}
            /\ Goto(p, "up_insert")
    /\ UNCHANGED <<users, created_with, login_attempts, recording_sessions,
                   chunk_files, saved, rmtree_failed, dbLegacy, now, tzOffset>>

\* lines 571-578: INSERT OR IGNORE INTO recording_sessions; the table has no
\* UNIQUE constraint the row could conflict with
UploadInsert(p) ==
    /\ th[p].pc = "up_insert"
    /\ recording_sessions' =
          Append(recording_sessions, SessionRow(th[p].user, th[p].session_id))
    /\ Goto(p, "up_save")
    /\ UNCHANGED <<users, created_with, user_folders, login_attempts,
                   dbLegacy, uploads, now, tzOffset>>

\* lines 583-591: the filename, file.save(filepath), os.path.getsize; the
\* open fails when the session directory is gone
UploadSave(p) ==
    /\ th[p].pc = "up_save"
    /\ LET timestamp == Strftime(LocalNow)
           filename == ChunkFilename(th[p].chunk_number, timestamp)
       IN IF <<th[p].user, th[p].session_id>> \notin session_folders
          THEN /\ Reply(p, Resp(500, "IOFailure"))
               /\ UNCHANGED <<chunk_files, saved>>
          ELSE /\ WriteFile(ChunkFile(th[p].user, th[p].session_id, filename,
                                      th[p].file, TRUE, th[p].chunk_number))
               /\ saved' = saved \cup {<<th[p].user, th[p].session_id,
                                          th[p].chunk_number>>}
               /\ th' = [th EXCEPT ![p].pc = "up_count",
                                   ![p].filename = filename,
                                   ![p].file_size = Len(th[p].file)]
    /\ UNCHANGED <<users, created_with, user_folders, login_attempts,
                   recording_sessions, session_folders, rmtree_failed, dbLegacy,
                   now, tzOffset>>

\* lines 592-594: file.save raises: the open failed (written = -1), or the
\* copy of the stream failed after written bytes and the file stays
UploadSaveFail(p, written) ==
    /\ th[p].pc = "up_save"
    /\ <<th[p].user, th[p].session_id>> \in session_folders
    /\ IF written = -1 THEN UNCHANGED chunk_files
       ELSE /\ written < Len(th[p].file)
            /\ WriteFile(ChunkFile(th[p].user, th[p].session_id,
                                   ChunkFilename(th[p].chunk_number,
                                                 Strftime(LocalNow)),
                                   SubSeq(th[p].file, 1, written), FALSE,
                                   th[p].chunk_number))
    /\ Reply(p, Resp(500, "IOFailure"))
    /\ UNCHANGED <<users, created_with, user_folders, login_attempts,
                   recording_sessions, session_folders, saved, rmtree_failed,
                   dbLegacy, now, tzOffset>>

\* lines 597-608: UPDATE recording_sessions SET chunk_count =
\* MAX(chunk_count, int(chunk_number)); a ValueError of int() is caught and
\* the handler goes on
UploadCount(p) ==
    /\ th[p].pc = "up_count"
    /\ recording_sessions' =
          IF IsIntStr(th[p].chunk_number)
          THEN [i \in 1..Len(recording_sessions) |->
                   IF i \in SessionRows(th[p].user, th[p].session_id)
                   THEN [recording_sessions[i] EXCEPT
                            !.chunk_count = Max(@, IntOf(th[p].chunk_number))]
                   ELSE recording_sessions[i]]
          ELSE recording_sessions
    /\ Goto(p, "up_touch")
    /\ UNCHANGED <<users, created_with, user_folders, login_attempts,
                   dbLegacy, uploads, now, tzOffset>>

\* lines 611-619: update_last_login and the response
UploadTouch(p) ==
    /\ th[p].pc = "up_touch"
    /\ update_last_login(th[p].user)
    /\ Reply(p, [Resp(200, "Ok") EXCEPT
                    !.user_id = th[p].user,
                    !.body = [filename |-> th[p].filename,
                              session_id |-> th[p].session_id,
                              chunk_number |-> th[p].chunk_number,
                              file_size |-> th[p].file_size]])
    /\ UNCHANGED <<created_with, user_folders, login_attempts,
                   recording_sessions, dbLegacy, uploads, now, tzOffset>>

\* -------------------------------------------------------- gated handlers
\* require_auth line 381: return f(*args, user=user, **kwargs); the gate has
\* let the request through and the handler starts for the user
Gated(p) == th[p].pc = "done" /\ th[p].op = "auth" /\ th[p].resp.kind = "Ok"

\* ------------------------------------------------------------ /storage_info
ChunkDuration == 15   \* chunk_duration: seconds per chunk

\* a table without the fallback to the free limit
get_storage_limit_no_default(tier) ==
    CASE tier = "free" -> 20 * 60
      [] tier = "premium" -> 20 * 60 * 60
      [] tier = "pro" -> 200 * 60 * 60
      [] OTHER -> 0

\* get_storage_limit_for_tier
get_storage_limit_for_tier(tier) ==
    CASE tier = "free" -> 20 * 60
      [] tier = "premium" -> 20 * 60 * 60
      [] tier = "pro" -> 200 * 60 * 60
      [] OTHER -> 20 * 60

\* the rows of the user in id order: SELECT ... WHERE user_id = ?
UserSessionRows(user_id) ==
    SelectSeq(recording_sessions, LAMBDA r : r.user_id = user_id)

\* lines 651-657: for every row whose directory exists, 15 seconds per file
RECURSIVE SumSeconds(_, _)
SumSeconds(user_id, rows) ==
    IF rows = <<>> THEN 0
    ELSE (IF <<user_id, Head(rows).session_id>> \in session_folders
          THEN Cardinality(VideoFiles(user_id, Head(rows).session_id))
                  * ChunkDuration
          ELSE 0) + SumSeconds(user_id, Tail(rows))

\* lines 636-657 as a function of the state
StorageSeconds(user_id) ==
    IF user_id \in user_folders
    THEN SumSeconds(user_id, UserSessionRows(user_id)) ELSE 0

\* lines 660-666: the tier of the user's row, free when there is none
TierOf(user_id) ==
    LET rows == {u \in users : u.user_id = user_id} IN
    IF rows = {} \/ (CHOOSE u \in rows : TRUE).subscription_tier = NULL
    THEN "free" ELSE (CHOOSE u \in rows : TRUE).subscription_tier

\* lines 630-657: the sessions of the user and their files
StorageScan(p) ==
    /\ Gated(p)
    /\ th' = [th EXCEPT ![p] =
          [Idle EXCEPT !.pc = "st_store", !.op = "storage_info",
                       !.email = th[p].email, !.user = th[p].resp.user_id,
                       !.total_storage_seconds = StorageSeconds(th[p].resp.user_id),
                       !.video_count =
                           IF th[p].resp.user_id \in user_folders
                           THEN Len(UserSessionRows(th[p].resp.user_id)) ELSE 0]]
    /\ UNCHANGED <<users, created_with, user_folders, login_attempts,
                   recording_sessions, dbLegacy, uploads, now, tzOffset>>

\* lines 660-691: the tier, UPDATE users SET storage_used, the response
\* (storage_percentage follows from storage_used and storage_limit)
StorageStore(p) ==
    /\ th[p].pc = "st_store"
    /\ LET tier == TierOf(th[p].user) IN
       /\ users' = {IF u.user_id = th[p].user
                    THEN [u EXCEPT !.storage_used = th[p].total_storage_seconds]
                    ELSE u : u \in users}
       /\ Reply(p, [Resp(200, "Ok") EXCEPT
                       !.user_id = th[p].user,
                       !.body = [storage_used |-> th[p].total_storage_seconds,
                                 storage_limit |-> get_storage_limit_for_tier(tier),
                                 video_count |-> th[p].video_count,
                                 subscription_tier |-> tier]])
    /\ UNCHANGED <<created_with, user_folders, login_attempts,
                   recording_sessions, dbLegacy, uploads, now, tzOffset>>

\* ------------------------------------------------------------------ /videos
\* ORDER BY created_at DESC: the newest row first, rows of one instant in id
\* order
RECURSIVE NewestFirst(_)
NewestFirst(rows) ==
    IF rows = <<>> THEN <<>>
    ELSE LET i == CHOOSE k \in 1..Len(rows) :
                     /\ \A j \in 1..Len(rows) : rows[j].created_at <= rows[k].created_at
                     /\ \A j \in 1..(k - 1) : rows[j].created_at < rows[k].created_at
         IN <<rows[i]>> \o NewestFirst(SubSeq(rows, 1, i - 1)
                                          \o SubSeq(rows, i + 1, Len(rows)))

\* lines 795-811: the user's directory and the SELECT of the sessions
ListSelect(p) ==
    /\ Gated(p)
    /\ IF th[p].resp.user_id \notin user_folders
       THEN th' = [th EXCEPT ![p] =
               [Idle EXCEPT !.pc = "done", !.op = "videos", !.email = th[p].email,
                            !.resp = [Resp(200, "Ok") EXCEPT
                                         !.user_id = th[p].resp.user_id,
                                         !.body = <<>>]]]
       ELSE th' = [th EXCEPT ![p] =
               [Idle EXCEPT !.pc = "ls_scan", !.op = "videos",
                            !.email = th[p].email, !.user = th[p].resp.user_id,
                            !.sessions =
                                NewestFirst(UserSessionRows(th[p].resp.user_id))]]
    /\ UNCHANGED <<users, created_with, user_folders, login_attempts,
                   recording_sessions, dbLegacy, uploads, now, tzOffset>>

\* entries that report the counter of the row
RECURSIVE VideoEntriesFromCounter(_, _)
VideoEntriesFromCounter(user_id, rows) ==
    IF rows = <<>> THEN <<>>
    ELSE (IF <<user_id, Head(rows).session_id>> \in session_folders
          THEN <<[session_id |-> Head(rows).session_id,
                  chunk_count |-> Head(rows).chunk_count]>>
          ELSE <<>>) \o VideoEntriesFromCounter(user_id, Tail(rows))

\* lines 813-833: an entry for every row whose directory exists
RECURSIVE VideoEntries(_, _)
VideoEntries(user_id, rows) ==
    IF rows = <<>> THEN <<>>
    ELSE (IF <<user_id, Head(rows).session_id>> \in session_folders
          THEN <<[session_id |-> Head(rows).session_id,
                  chunk_count |->
                      Cardinality(VideoFiles(user_id, Head(rows).session_id))]>>
          ELSE <<>>) \o VideoEntries(user_id, Tail(rows))

\* lines 813-836: the listing of the directories and the response
ListScan(p) ==
    /\ th[p].pc = "ls_scan"
    /\ Reply(p, [Resp(200, "Ok") EXCEPT
                    !.user_id = th[p].user,
                    !.body = VideoEntries(th[p].user, th[p].sessions)])
    /\ UNCHANGED <<users, created_with, user_folders, login_attempts,
                   recording_sessions, dbLegacy, uploads, now, tzOffset>>

\* ------------------------------------------------------ /download/<session>
\* lines 852-883: the sorted names of the session's files
Download(p, session_id) ==
    /\ Gated(p)
    /\ LET user_id == th[p].resp.user_id
           video_files == SortedNames(VideoFiles(user_id, session_id))
           answer == IF <<user_id, session_id>> \notin session_folders
                        \/ video_files = <<>>
                     THEN Resp(404, "NotFound")
                     ELSE [Resp(200, "Ok") EXCEPT
                              !.user_id = user_id,
                              !.body = [chunks |-> video_files,
                                        total_chunks |-> Len(video_files),
                                        session_id |-> session_id]]
       IN th' = [th EXCEPT ![p] =
               [Idle EXCEPT !.pc = "done", !.op = "download",
                            !.email = th[p].email, !.resp = answer]]
    /\ UNCHANGED <<users, created_with, user_folders, login_attempts,
                   recording_sessions, dbLegacy, uploads, now, tzOffset>>

\* ------------------------------------------------------------------ /delete
\* lines 931-946: shutil.rmtree(session_path) when the directory exists
DeleteFiles(p, session_id) ==
    /\ Gated(p)
    /\ LET user_id == th[p].resp.user_id IN
       IF session_id = <<>>
       THEN /\ th' = [th EXCEPT ![p] =
                  [Idle EXCEPT !.pc = "done", !.op = "delete",
                               !.email = th[p].email,
                               !.resp = Resp(400, "InvalidInput")]]
            /\ UNCHANGED <<session_folders, chunk_files>>
       ELSE IF <<user_id, session_id>> \notin session_folders
       THEN /\ th' = [th EXCEPT ![p] =
                  [Idle EXCEPT !.pc = "done", !.op = "delete",
                               !.email = th[p].email,
                               !.resp = Resp(404, "NotFound")]]
            /\ UNCHANGED <<session_folders, chunk_files>>
       ELSE /\ session_folders' = session_folders \ {<<user_id, session_id>>}
            /\ chunk_files' = {f \in chunk_files :
                                  ~(f.user_id = user_id /\ f.session_id = session_id)}
            /\ th' = [th EXCEPT ![p] =
                  [Idle EXCEPT !.pc = "del_rows", !.op = "delete",
                               !.email = th[p].email, !.user = user_id,
                               !.session_id = session_id]]
    /\ UNCHANGED <<users, created_with, user_folders, login_attempts,
                   recording_sessions, saved, rmtree_failed, dbLegacy, now,
                   tzOffset>>

\* the files of a session directory
SessionFiles(user_id, session_id) ==
    {f \in chunk_files : f.user_id = user_id /\ f.session_id = session_id}

\* a removal that raises after it has taken the directory as well
DeleteFilesFailGone(p, session_id, removed) ==
    /\ Gated(p)
    /\ session_id # <<>>
    /\ <<th[p].resp.user_id, session_id>> \in session_folders
    /\ removed \subseteq SessionFiles(th[p].resp.user_id, session_id)
    /\ chunk_files' = chunk_files \ removed
    /\ session_folders' = session_folders \ {<<th[p].resp.user_id, session_id>>}
    /\ rmtree_failed' = rmtree_failed \cup {<<th[p].resp.user_id, session_id>>}
    /\ th' = [th EXCEPT ![p] =
           [Idle EXCEPT !.pc = "done", !.op = "delete", !.email = th[p].email,
                        !.session_id = session_id,
                        !.resp = [Resp(500, "Failed") EXCEPT
                                     !.user_id = th[p].resp.user_id]]]
    /\ UNCHANGED <<users, created_with, user_folders, login_attempts,
                   recording_sessions, saved, dbLegacy, now, tzOffset>>

\* line 946 and lines 963-966: shutil.rmtree raises after it has removed
\* some of the files; the directory itself is the last thing it removes, so
\* it is still there; the DELETE is not reached and the answer is 500
DeleteFilesFail(p, session_id, removed) ==
    /\ Gated(p)
    /\ session_id # <<>>
    /\ <<th[p].resp.user_id, session_id>> \in session_folders
    /\ removed \subseteq SessionFiles(th[p].resp.user_id, session_id)
    /\ chunk_files' = chunk_files \ removed
    /\ rmtree_failed' = rmtree_failed \cup {<<th[p].resp.user_id, session_id>>}
    /\ th' = [th EXCEPT ![p] =
           [Idle EXCEPT !.pc = "done", !.op = "delete", !.email = th[p].email,
                        !.session_id = session_id,
                        !.resp = [Resp(500, "Failed") EXCEPT
                                     !.user_id = th[p].resp.user_id]]]
    /\ UNCHANGED <<users, created_with, user_folders, login_attempts,
                   recording_sessions, session_folders, saved, dbLegacy, now,
                   tzOffset>>

\* lines 949-959: DELETE FROM recording_sessions WHERE user_id = ? AND
\* session_id = ?, the response
DeleteRows(p) ==
    /\ th[p].pc = "del_rows"
    /\ recording_sessions' =
          SelectSeq(recording_sessions,
                    LAMBDA r : ~(r.user_id = th[p].user
                                 /\ r.session_id = th[p].session_id))
    /\ Reply(p, [Resp(200, "Ok") EXCEPT !.user_id = th[p].user])
    /\ UNCHANGED <<users, created_with, user_folders, login_attempts,
                   dbLegacy, uploads, now, tzOffset>>

\* ---------------------------------------------------- /update_subscription
valid_tiers == {"free", "premium", "pro"}

\* verify_app_store_receipt: at least 10 characters, three parts between dots
verify_app_store_receipt(transaction_jws) ==
    /\ Len(transaction_jws) >= 10
    /\ Cardinality({i \in 1..Len(transaction_jws) : transaction_jws[i] = "."}) = 2

\* the UPDATE without its WHERE clause
SetSubscriptionAll(user_id, tier, expires_at) ==
    users' = {[u EXCEPT !.subscription_tier = tier,
                        !.subscription_expires_at = expires_at] : u \in users}

\* UPDATE users SET subscription_tier = ?, subscription_expires_at = ?
\*   WHERE user_id = ?
SetSubscription(user_id, tier, expires_at) ==
    users' = {IF u.user_id = user_id
              THEN [u EXCEPT !.subscription_tier = tier,
                             !.subscription_expires_at = expires_at]
              ELSE u : u \in users}

\* lines 702-723: the JSON body (has_data: it is a non-empty object) and the
\* receipt; an absent subscription_tier is 'free', an absent storage_limit
\* 1200, an absent expires_at or transaction_jws ''
UpdateSubscriptionStart(p, has_data, subscription_tier, storage_limit, transaction_jws, expires_at) ==
    /\ Gated(p)
    /\ LET answer(status, kind) ==
               [Idle EXCEPT !.pc = "done", !.op = "update_subscription",
                            !.email = th[p].email, !.resp = Resp(status, kind)]
       IN IF ~has_data
          THEN th' = [th EXCEPT ![p] = answer(400, "InvalidInput")]
          ELSE IF transaction_jws # <<>> /\ ~verify_app_store_receipt(transaction_jws)
          THEN th' = [th EXCEPT ![p] = answer(400, "InvalidReceipt")]
          ELSE th' = [th EXCEPT ![p] =
                  [Idle EXCEPT !.pc = "us_store", !.op = "update_subscription",
                               !.email = th[p].email,
                               !.user = th[p].resp.user_id,
                               !.tier = subscription_tier,
                               !.storage_limit = storage_limit,
                               !.expires_at = expires_at]]
    /\ UNCHANGED <<users, created_with, user_folders, login_attempts,
                   recording_sessions, dbLegacy, uploads, now, tzOffset>>

\* the UPDATE with the tier as it was sent
UpdateSubscriptionStoreAsSent(p) ==
    /\ th[p].pc = "us_store"
    /\ SetSubscription(th[p].user, th[p].tier,
                       IF th[p].expires_at = "" THEN NULL ELSE th[p].expires_at)
    /\ Reply(p, [Resp(200, "Ok") EXCEPT
                    !.user_id = th[p].user,
                    !.body = [tier |-> th[p].tier,
                              storage_limit |-> th[p].storage_limit,
                              expires_at |-> th[p].expires_at]])
    /\ UNCHANGED <<created_with, user_folders, login_attempts,
                   recording_sessions, dbLegacy, uploads, now, tzOffset>>

\* lines 725-752: an unknown tier becomes 'free', the UPDATE, the response
UpdateSubscriptionStore(p) ==
    /\ th[p].pc = "us_store"
    /\ LET known == th[p].tier \in valid_tiers
           subscription_tier == IF known THEN th[p].tier ELSE "free"
           storage_limit == IF known THEN th[p].storage_limit ELSE 1200
       IN /\ SetSubscription(th[p].user, subscription_tier,
                             IF th[p].expires_at = "" THEN NULL
                             ELSE th[p].expires_at)
          /\ Reply(p, [Resp(200, "Ok") EXCEPT
                          !.user_id = th[p].user,
                          !.body = [tier |-> subscription_tier,
                                    storage_limit |-> storage_limit,
                                    expires_at |-> th[p].expires_at]])
    /\ UNCHANGED <<created_with, user_folders, login_attempts,
                   recording_sessions, dbLegacy, uploads, now, tzOffset>>

\* -------------------------------------------------------- demo accounts
demo_password == P_1                 \* "123456"

\* datetime.isoformat(): the text of the local instant t
Isoformat(t) == ToString(t)

\* demo_switch_tier lines 1244-1249
reviewer_emails == <<D_free, D_premium, D_pro, D_rev>>

\* create_all_demo_accounts lines 1310-1329
accounts ==
    <<[email |-> D_free, password |-> P_1, name |-> N_demo, tier |-> "free"],
      [email |-> D_premium, password |-> P_1, name |-> N_demo, tier |-> "premium"],
      [email |-> D_pro, password |-> P_1, name |-> N_demo, tier |-> "pro"]>>

\* the handler goes on after create_user has returned an error: 400 in
\* create_demo_account (lines 1193-1195), the next account in
\* create_all_demo_accounts (lines 1342-1344)
CreateUserFailed(p, kind) ==
    IF th[p].op = "create_demo" THEN Reply(p, Resp(400, kind))
    ELSE IF th[p].i < Len(accounts)
    THEN th' = [th EXCEPT ![p].pc = "all_lookup", ![p].i = th[p].i + 1,
                          ![p].user = NULL]
    ELSE Reply(p, Resp(201, "Created"))

\* create_user lines 189-205 called by a demo handler: the checks of the
\* address and the passcode, the SELECT of the e-mail, the new user id
CreateUserCheck(p) ==
    /\ th[p].pc = "cu_check"
    /\ IF ~is_valid_email(th[p].email) \/ ~IsSixDigits(th[p].password)
       THEN CreateUserFailed(p, "InvalidInput")
       ELSE IF EmailRegistered(th[p].email)
       THEN CreateUserFailed(p, "Conflict")
       ELSE /\ FreshIds # {}
            /\ th' = [th EXCEPT ![p].pc = "cu_insert", ![p].user = generate_user_id]
    /\ UNCHANGED <<users, created_with, user_folders, login_attempts,
                   recording_sessions, dbLegacy, uploads, now, tzOffset>>

\* create_user lines 208-216 and 226-228
CreateUserInsert(p, salt) ==
    /\ th[p].pc = "cu_insert"
    /\ IF EmailTaken(th[p].email)
       THEN /\ CreateUserFailed(p, "CreateFailed")
            /\ UNCHANGED <<users, created_with>>
       ELSE /\ users' = users \cup
                  {UserRow(th[p].user, th[p].email, th[p].full_name,
                           hash_password(th[p].password, salt), salt)}
            /\ created_with' = created_with @@ (th[p].user :> th[p].password)
            /\ Goto(p, "cu_mkdir")
    /\ UNCHANGED <<user_folders, login_attempts, recording_sessions, dbLegacy,
                   uploads, now, tzOffset>>

\* create_user lines 219-224: the directory; the handler goes on with its
\* UPDATE of the tier
CreateUserMkdir(p) ==
    /\ th[p].pc = "cu_mkdir"
    /\ user_folders' = user_folders \cup {th[p].user}
    /\ Goto(p, IF th[p].op = "create_demo" THEN "dc_upgrade" ELSE "all_update")
    /\ UNCHANGED <<users, created_with, login_attempts, recording_sessions,
                   dbLegacy, uploads, now, tzOffset>>

\* os.makedirs raises OSError: lines 1224-1226 and 1379-1381 answer 500
CreateUserMkdirFail(p) ==
    /\ th[p].pc = "cu_mkdir"
    /\ Reply(p, Resp(500, "Failed"))
    /\ UNCHANGED <<users, created_with, user_folders, login_attempts,
                   recording_sessions, dbLegacy, uploads, now, tzOffset>>

\* ---------------------------------------------------- /create_demo_account
\* lines 1155-1161 and 1191: the demo account is looked up by its e-mail and
\* passcode
DemoCreateLookup(p) ==
    /\ th[p].pc = "idle"
    /\ LET existing_user == get_user_by_email_password(D_rev, demo_password) IN
       th' = [th EXCEPT ![p] =
           [Idle EXCEPT !.pc = IF existing_user # NULL THEN "dc_existing"
                               ELSE "cu_check",
                        !.op = "create_demo", !.email = D_rev,
                        !.password = demo_password, !.full_name = N_demo,
                        !.user = existing_user]]
    /\ UNCHANGED <<users, created_with, user_folders, login_attempts,
                   recording_sessions, dbLegacy, uploads, now, tzOffset>>

\* lines 1163-1188: UPDATE users SET subscription_tier = 'premium',
\* subscription_expires_at = ?, storage_used = 0
DemoUpgradeExisting(p) ==
    /\ th[p].pc = "dc_existing"
    /\ users' = {IF u.user_id = th[p].user
                 THEN [u EXCEPT !.subscription_tier = "premium",
                                !.subscription_expires_at =
                                    Isoformat(LocalNow + 30 * Day),
                                !.storage_used = 0]
                 ELSE u : u \in users}
    /\ Reply(p, [Resp(200, "Ok") EXCEPT !.user_id = th[p].user])
    /\ UNCHANGED <<created_with, user_folders, login_attempts,
                   recording_sessions, dbLegacy, uploads, now, tzOffset>>

\* lines 1197-1222: the new account is set to premium
DemoCreateUpgrade(p) ==
    /\ th[p].pc = "dc_upgrade"
    /\ SetSubscription(th[p].user, "premium", Isoformat(LocalNow + 30 * Day))
    /\ Reply(p, [Resp(201, "Created") EXCEPT !.user_id = th[p].user])
    /\ UNCHANGED <<created_with, user_folders, login_attempts,
                   recording_sessions, dbLegacy, uploads, now, tzOffset>>

\* ------------------------------------------------------- /demo_switch_tier
\* lines 1234-1242 and 1263: the e-mail (<<>>: none given) and the tier
\* ('premium' when none is given) of the JSON body
DemoSwitchStart(p, email, tier) ==
    /\ th[p].pc = "idle"
    /\ th' = [th EXCEPT ![p] =
           [Idle EXCEPT !.pc = IF email = <<>> THEN "ds_find" ELSE "ds_verify",
                        !.op = "demo_switch", !.email = email,
                        !.password = demo_password, !.tier = tier, !.i = 1]]
    /\ UNCHANGED <<users, created_with, user_folders, login_attempts,
                   recording_sessions, dbLegacy, uploads, now, tzOffset>>

\* lines 1252-1256: the first reviewer account that exists
DemoSwitchFind(p) ==
    /\ th[p].pc = "ds_find"
    /\ IF get_user_by_email_password(reviewer_emails[th[p].i], demo_password) # NULL
       THEN th' = [th EXCEPT ![p].pc = "ds_verify",
                             ![p].email = reviewer_emails[th[p].i]]
       ELSE IF th[p].i < Len(reviewer_emails)
       THEN th' = [th EXCEPT ![p].i = th[p].i + 1]
       ELSE Goto(p, "ds_verify")
    /\ UNCHANGED <<users, created_with, user_folders, login_attempts,
                   recording_sessions, dbLegacy, uploads, now, tzOffset>>

\* lines 1258-1260: the account must exist with the demo passcode
DemoSwitchVerify(p) ==
    /\ th[p].pc = "ds_verify"
    /\ LET user == get_user_by_email_password(th[p].email, demo_password) IN
       IF user = NULL THEN Reply(p, Resp(404, "NotFound"))
       ELSE th' = [th EXCEPT ![p].pc = "ds_update", ![p].user = user]
    /\ UNCHANGED <<users, created_with, user_folders, login_attempts,
                   recording_sessions, dbLegacy, uploads, now, tzOffset>>

\* lines 1265-1300: an unknown tier becomes 'premium'; the UPDATE
DemoSwitchUpdate(p) ==
    /\ th[p].pc = "ds_update"
    /\ LET tier == IF th[p].tier \in valid_tiers THEN th[p].tier ELSE "premium" IN
       /\ SetSubscription(th[p].user, tier,
                          IF tier = "free" THEN NULL
                          ELSE Isoformat(LocalNow + 365 * Day))
       /\ Reply(p, [Resp(200, "Ok") EXCEPT
                       !.user_id = th[p].user,
                       !.body = [email |-> th[p].email, tier |-> tier]])
    /\ UNCHANGED <<created_with, user_folders, login_attempts,
                   recording_sessions, dbLegacy, uploads, now, tzOffset>>

\* ---------------------------------------------- /create_all_demo_accounts
\* lines 1333-1345: the account of the turn is looked up, or created
AllDemoLookup(p) ==
    /\ \/ th[p].pc = "idle"
       \/ th[p].pc = "all_lookup"
    /\ LET i == IF th[p].pc = "idle" THEN 1 ELSE th[p].i
           existing_user ==
               get_user_by_email_password(accounts[i].email, accounts[i].password)
       IN th' = [th EXCEPT ![p] =
              [Idle EXCEPT !.pc = IF existing_user # NULL THEN "all_update"
                                  ELSE "cu_check",
                           !.op = "create_all", !.i = i,
                           !.email = accounts[i].email,
                           !.password = accounts[i].password,
                           !.full_name = accounts[i].name,
                           !.user = existing_user]]
    /\ UNCHANGED <<users, created_with, user_folders, login_attempts,
                   recording_sessions, dbLegacy, uploads, now, tzOffset>>

\* lines 1347-1377: the tier of the account is written, then the next
\* account or the response
AllDemoUpdate(p) ==
    /\ th[p].pc = "all_update"
    /\ LET tier == accounts[th[p].i].tier IN
       SetSubscription(th[p].user, tier,
                       IF tier = "free" THEN NULL
                       ELSE Isoformat(LocalNow + 365 * Day))
    /\ IF th[p].i < Len(accounts)
       THEN th' = [th EXCEPT ![p].pc = "all_lookup", ![p].i = th[p].i + 1,
                             ![p].user = NULL]
       ELSE Reply(p, Resp(201, "Created"))
    /\ UNCHANGED <<created_with, user_folders, login_attempts,
                   recording_sessions, dbLegacy, uploads, now, tzOffset>>

\* ----------------------------------------------------------- specifications
\* threads that have passed the parse of /login and have not yet recorded
LoginsInFlight ==
    Cardinality({q \in Procs :
        th[q].pc \in {"login_check", "login_auth", "login_record"}})

LogRoom(cap) == Len(login_attempts) + LoginsInFlight < cap

\* The rate limiter over time: concurrent wrong-passcode logins and attempt
\* queries for one e-mail.
NextRate ==
    \/ Tick
    \/ \E p \in Procs :
        \/ LogRoom(MaxLog) /\ LoginStart(p, S_A, P_2)
        \/ LoginCheck(p)
        \/ LoginLimited(p)
        \/ LoginAuth(p)
        \/ LoginRecord(p)
        \/ LoginRemaining(p)
        \/ CheckAttemptsStart(p, S_a)
        \/ CheckAttemptsRemaining(p)
        \/ CheckAttemptsLimited(p)
        \/ Respond(p)

InitRate == Init /\ ~backup_exists

SpecRate == InitRate /\ [][NextRate]_vars

\* the same with the process running in UTC
InitRateUTC == InitRate /\ tzOffset = 0

SpecRateUTC == InitRateUTC /\ [][NextRate]_vars

\* The failure tally of a registered account: concurrent logins with the
\* right and with a wrong passcode.
NextTally ==
    \E p \in Procs :
        \/ \E pw \in {P_1, P_2} : LogRoom(MaxLogTally) /\ LoginStart(p, S_a, pw)
        \/ LoginCheck(p)
        \/ LoginLimited(p)
        \/ LoginAuth(p)
        \/ LoginRecord(p)
        \/ LoginTouch(p)
        \/ LoginRemaining(p)
        \/ RegisterStart(p, <<>>, S_a, P_1)
        \/ RegisterInsert(p, "s1")
        \/ RegisterMkdir(p)
        \/ RegisterMkdirFail(p)
        \/ Respond(p)

SpecTally == InitRateUTC /\ [][NextTally]_vars

\* The credential store: registration, migration and authentication, one
\* request at a time.
EmailInputs == {<<>>, S_a, S_A, S_c}
PasscodeInputs == {P_1, P_2, P_1sp, P_short, P_alpha, P_uni}
RegisterEmails == {S_a, S_A, S_bad}
RegisterPasscodes == {P_1, P_1sp, P_short, P_alpha, P_uni}
MigrateEmails == {S_a, S_c}
MigratePasscodes == {P_1, P_alpha}
PinInputs == {PIN_1, PIN_2}

Next ==
    \E p \in {"t1"} :
        \/ \E e \in EmailInputs, pw \in PasscodeInputs :
              LogRoom(MaxLogAccounts) /\ LoginStart(p, e, pw)
        \/ LoginCheck(p)
        \/ LoginAuth(p)
        \/ LoginRecord(p)
        \/ LoginTouch(p)
        \/ LoginRemaining(p)
        \/ \E e \in EmailInputs, pw \in PasscodeInputs : AuthRequestStart(p, e, pw)
        \/ AuthRequestLookup(p)
        \/ AuthRequestTouch(p)
        \/ \E e \in RegisterEmails, pw \in RegisterPasscodes :
              RegisterStart(p, <<>>, e, pw)
        \/ \E salt \in Salts : RegisterInsert(p, salt)
        \/ RegisterMkdir(p)
        \/ RegisterMkdirFail(p)
        \/ \E pin \in PinInputs, e \in MigrateEmails, pw \in MigratePasscodes,
              n \in {<<>>, N_n} : MigrateStart(p, pin, e, pw, n)
        \/ \E salt \in Salts : MigrateInsert(p, salt)
        \/ Respond(p)

InitAccounts == Init /\ tzOffset = 0

Spec == InitAccounts /\ [][Next]_vars

\* Account creation under concurrency: registrations and migrations of two
\* request threads for the same and for different e-mails.
NextCreate ==
    \E p \in Procs :
        \/ \E e \in {S_a, S_A, S_c} : RegisterStart(p, <<>>, e, P_1)
        \/ RegisterInsert(p, "s1")
        \/ RegisterMkdir(p)
        \/ RegisterMkdirFail(p)
        \/ \E e \in {S_a, S_c} : MigrateStart(p, PIN_1, e, P_2, N_n)
        \/ MigrateInsert(p, "s2")
        \/ Respond(p)

SpecCreate == InitAccounts /\ [][NextCreate]_vars

\* A registered account with its upload directory: the state after
\* /register of N, a@b.io, 123456 and a /login of the account have been
\* answered.
InitStore ==
    /\ users = {[UserRow("u1", S_a, N_n, hash_password(P_1, "s1"), "s1")
                    EXCEPT !.last_login = 0]}
    /\ created_with = ("u1" :> P_1)
    /\ user_folders = {"u1"}
    /\ login_attempts = <<[email |-> S_a, attempt_time |-> 0, success |-> 1]>>
    /\ recording_sessions = <<>>
    /\ session_folders = {}
    /\ chunk_files = {}
    /\ saved = {}
    /\ rmtree_failed = {}
    /\ backup_exists = FALSE
    /\ users_old_pin_backup = <<>>
    /\ recording_sessions_old_backup = <<>>
    /\ now = 0
    /\ tzOffset = 0
    /\ th = [p \in Procs |-> Idle]

\* Concurrent uploads of two request threads into one session of the account.
NextUpload ==
    \E p \in Procs :
        \/ \E file \in {B_1, B_2}, k \in {K_1, K_2} :
              UploadStart(p, S_a, P_1, file, SID_1, k)
        \/ UploadAuth(p)
        \/ UploadExists(p)
        \/ UploadMkdir(p)
        \/ UploadInsert(p)
        \/ UploadSave(p)
        \/ \E written \in -1..1 : UploadSaveFail(p, written)
        \/ UploadCount(p)
        \/ UploadTouch(p)
        \/ Respond(p)

SpecUpload == InitStore /\ [][NextUpload]_vars

\* Uploads into a session and deletions of it by two request threads.
NextStore ==
    \E p \in Procs :
        \/ UploadStart(p, S_a, P_1, B_1, SID_1, K_1)
        \/ UploadAuth(p)
        \/ UploadExists(p)
        \/ UploadMkdir(p)
        \/ UploadInsert(p)
        \/ UploadSave(p)
        \/ UploadCount(p)
        \/ UploadTouch(p)
        \/ AuthRequestStart(p, S_a, P_1)
        \/ AuthRequestLookup(p)
        \/ AuthRequestTouch(p)
        \/ DeleteFiles(p, SID_1)
        \/ DeleteRows(p)
        \/ Respond(p)

SpecStore == InitStore /\ [][NextStore]_vars

\* One client of the account: uploads with several chunk numbers in any
\* order, failing writes, and the three listings.
ChunkNumbers == {K_1, K_2, K_999, K_1000, K_x}

NextChunks ==
    \E p \in {"t1"} :
        \/ \E k \in ChunkNumbers : UploadStart(p, S_a, P_1, B_2, SID_1, k)
        \/ UploadAuth(p)
        \/ UploadExists(p)
        \/ UploadMkdir(p)
        \/ UploadInsert(p)
        \/ UploadSave(p)
        \/ \E written \in {-1, 1} : UploadSaveFail(p, written)
        \/ UploadCount(p)
        \/ UploadTouch(p)
        \/ AuthRequestStart(p, S_a, P_1)
        \/ AuthRequestLookup(p)
        \/ AuthRequestTouch(p)
        \/ StorageScan(p)
        \/ StorageStore(p)
        \/ ListSelect(p)
        \/ ListScan(p)
        \/ Download(p, SID_1)
        \/ Respond(p)

SpecChunks == InitStore /\ [][NextChunks]_vars

\* the decimal text of a natural number
RECURSIVE DecStr(_)
DecStr(n) == IF n < 10 THEN <<DigitChar(n)>>
             ELSE DecStr(n \div 10) \o <<DigitChar(n % 10)>>

\* A client that records one long session of the free account: chunk after
\* chunk, asking for the storage figures in between.
NextQuota ==
    \E p \in {"t1"} :
        \/ /\ Cardinality(chunk_files) < MaxQuotaChunks
           /\ UploadStart(p, S_a, P_1, B_1, SID_1,
                          DecStr(Cardinality(chunk_files) + 1))
        \/ UploadAuth(p)
        \/ UploadExists(p)
        \/ UploadMkdir(p)
        \/ UploadInsert(p)
        \/ UploadSave(p)
        \/ UploadCount(p)
        \/ UploadTouch(p)
        \/ AuthRequestStart(p, S_a, P_1)
        \/ AuthRequestLookup(p)
        \/ AuthRequestTouch(p)
        \/ StorageScan(p)
        \/ StorageStore(p)
        \/ Respond(p)

SpecQuota == InitStore /\ [][NextQuota]_vars

\* The subscription tier: registration, the subscription update of the
\* account and the demo handlers, one request at a time.
TierInputs == {"free", "pro", "gold"}

NextTier ==
    \E p \in {"t1"} :
        \/ RegisterStart(p, <<>>, S_a, P_1)
        \/ RegisterInsert(p, "s1")
        \/ RegisterMkdir(p)
        \/ RegisterMkdirFail(p)
        \/ AuthRequestStart(p, S_a, P_1)
        \/ AuthRequestLookup(p)
        \/ AuthRequestTouch(p)
        \/ \E has_data \in BOOLEAN, tier \in TierInputs,
              jws \in {<<>>, J_ok, J_bad}, expires_at \in {"", E_1} :
              UpdateSubscriptionStart(p, has_data, tier, 1200, jws, expires_at)
        \/ UpdateSubscriptionStore(p)
        \/ DemoCreateLookup(p)
        \/ DemoUpgradeExisting(p)
        \/ DemoCreateUpgrade(p)
        \/ CreateUserCheck(p)
        \/ CreateUserInsert(p, "s2")
        \/ CreateUserMkdir(p)
        \/ CreateUserMkdirFail(p)
        \/ \E email \in {<<>>, S_a}, tier \in TierInputs :
              DemoSwitchStart(p, email, tier)
        \/ DemoSwitchFind(p)
        \/ DemoSwitchVerify(p)
        \/ DemoSwitchUpdate(p)
        \/ AllDemoLookup(p)
        \/ AllDemoUpdate(p)
        \/ MigrateStart(p, PIN_1, S_c, P_2, N_n)
        \/ MigrateInsert(p, "s2")
        \/ Respond(p)

SpecTier == InitAccounts /\ [][NextTier]_vars

\* Two clients of the account: uploads into a session, deletions of it, the
\* storage figures and the listing.
NextSessions ==
    \E p \in Procs :
        \/ \E k \in {K_1, K_2} : UploadStart(p, S_a, P_1, B_1, SID_1, k)
        \/ UploadAuth(p)
        \/ UploadExists(p)
        \/ UploadMkdir(p)
        \/ UploadInsert(p)
        \/ UploadSave(p)
        \/ UploadCount(p)
        \/ UploadTouch(p)
        \/ AuthRequestStart(p, S_a, P_1)
        \/ AuthRequestLookup(p)
        \/ AuthRequestTouch(p)
        \/ StorageScan(p)
        \/ StorageStore(p)
        \/ ListSelect(p)
        \/ ListScan(p)
        \/ DeleteFiles(p, SID_1)
        \/ DeleteRows(p)
        \/ Respond(p)

SpecSessions == InitStore /\ [][NextSessions]_vars

\* The limit of a tier: get_storage_limit_for_tier applied to tier texts,
\* the three tiers and others.
TierTexts == {"free", "premium", "pro", "gold", "", "Free", "PRO", "basic",
              "trial", "plus", "Premium", "premium "}

\* a call of get_storage_limit_for_tier(tier) and its result
StorageLimit(p, tier) ==
    /\ th[p].pc = "idle"
    /\ th' = [th EXCEPT ![p] =
           [Idle EXCEPT !.pc = "done", !.op = "storage_limit", !.tier = tier,
                        !.storage_limit = get_storage_limit_for_tier(tier)]]
    /\ UNCHANGED <<users, created_with, user_folders, login_attempts,
                   recording_sessions, dbLegacy, uploads, now, tzOffset>>

NextLimit ==
    \E p \in Procs :
        \/ \E tier \in TierTexts : StorageLimit(p, tier)
        \/ Respond(p)

SpecLimit == InitStore /\ [][NextLimit]_vars

\* One client of the account: uploads into a session, deletions of it that
\* fail in the removal of the files, and deletions that go through.
NextRetry ==
    \E p \in {"t1"} :
        \/ \E k \in {K_1, K_2} : UploadStart(p, S_a, P_1, B_1, SID_1, k)
        \/ UploadAuth(p)
        \/ UploadExists(p)
        \/ UploadMkdir(p)
        \/ UploadInsert(p)
        \/ UploadSave(p)
        \/ UploadCount(p)
        \/ UploadTouch(p)
        \/ AuthRequestStart(p, S_a, P_1)
        \/ AuthRequestLookup(p)
        \/ AuthRequestTouch(p)
        \/ DeleteFiles(p, SID_1)
        \/ \E removed \in SUBSET chunk_files : DeleteFilesFail(p, SID_1, removed)
        \/ DeleteRows(p)
        \/ ListSelect(p)
        \/ ListScan(p)
        \/ Respond(p)

SpecRetry == InitStore /\ [][NextRetry]_vars

\* Subscription updates of two accounts by two request threads.
NextSubscribe ==
    \E p \in Procs :
        \/ \E e \in {S_a, S_c} : RegisterStart(p, <<>>, e, P_1)
        \/ RegisterInsert(p, "s1")
        \/ RegisterMkdir(p)
        \/ \E e \in {S_a, S_c} : AuthRequestStart(p, e, P_1)
        \/ AuthRequestLookup(p)
        \/ AuthRequestTouch(p)
        \/ \E tier \in {"pro", "gold"}, jws \in {<<>>, J_ok, J_bad},
              expires_at \in {"", E_1} :
              UpdateSubscriptionStart(p, TRUE, tier, 1200, jws, expires_at)
        \/ UpdateSubscriptionStore(p)
        \/ Respond(p)

SpecSubscribe == InitAccounts /\ [][NextSubscribe]_vars

\* The migration of the archived PIN account by two request threads, next
\* to a registration. Where the database was created by the PIN-based
\* version, the directory of the archived account and of its session, with
\* the two chunks the archived row counts, are on disk.
LegacyFiles ==
    {ChunkFile("L1", "old1", ChunkFilename(k, Strftime(0)), B_1, TRUE, k)
        : k \in {K_1, K_2}}

InitMigrate ==
    /\ users = {}
    /\ created_with = << >>
    /\ login_attempts = <<>>
    /\ recording_sessions = <<>>
    /\ saved = {}
    /\ rmtree_failed = {}
    /\ backup_exists \in BOOLEAN
    /\ users_old_pin_backup = IF backup_exists THEN LegacyUsers ELSE <<>>
    /\ recording_sessions_old_backup = IF backup_exists THEN LegacySessions ELSE <<>>
    /\ user_folders = IF backup_exists THEN {"L1"} ELSE {}
    /\ session_folders = IF backup_exists THEN {<<"L1", "old1">>} ELSE {}
    /\ chunk_files = IF backup_exists THEN LegacyFiles ELSE {}
    /\ now = 0
    /\ tzOffset = 0
    /\ th = [p \in Procs |-> Idle]

NextMigrate ==
    \E p \in Procs :
        \/ RegisterStart(p, <<>>, S_a, P_1)
        \/ RegisterInsert(p, "s1")
        \/ RegisterMkdir(p)
        \/ \E pin \in PinInputs, e \in MigrateEmails, n \in {<<>>, N_n} :
              MigrateStart(p, pin, e, P_2, n)
        \/ MigrateInsert(p, "s2")
        \/ CheckMigration(p)
        \/ AuthRequestStart(p, S_c, P_2)
        \/ AuthRequestLookup(p)
        \/ AuthRequestTouch(p)
        \/ ListSelect(p)
        \/ ListScan(p)
        \/ Respond(p)

SpecMigrate == InitMigrate /\ [][NextMigrate]_vars

\* ------------------------------------------------ update_last_login raises
\* update_last_login (lines 230-241) has no try: sqlite3.connect, the
\* UPDATE and the commit raise sqlite3.OperationalError when the database
\* is locked or cannot be written. Nothing is committed.

\* login_user line 465 raises inside the handler's try: lines 497-500
\* answer 500 'Login failed'
LoginTouchFail(p) ==
    /\ th[p].pc = "login_touch"
    /\ Reply(p, Resp(500, "Failed"))
    /\ UNCHANGED <<users, created_with, user_folders, login_attempts,
                   recording_sessions, dbLegacy, uploads, now, tzOffset>>

\* require_auth line 377 raises outside any try: the handler is never
\* called and the framework answers 500
AuthRequestTouchFail(p) ==
    /\ th[p].pc = "auth_touch"
    /\ Reply(p, Resp(500, "Failed"))
    /\ UNCHANGED <<users, created_with, user_folders, login_attempts,
                   recording_sessions, dbLegacy, uploads, now, tzOffset>>

\* upload_video line 611 raises inside the handler's try, after the chunk
\* was written and counted: the catch-all answers 500
UploadTouchFail(p) ==
    /\ th[p].pc = "up_touch"
    /\ Reply(p, Resp(500, "Failed"))
    /\ UNCHANGED <<users, created_with, user_folders, login_attempts,
                   recording_sessions, dbLegacy, uploads, now, tzOffset>>

\* Logins, gated requests and uploads of the account by two request
\* threads, with a last-login update that may fail.
NextTouch ==
    \E p \in Procs :
        \/ \E pw \in {P_1, P_2} : LogRoom(MaxLogTouch) /\ LoginStart(p, S_a, pw)
        \/ LoginCheck(p)
        \/ LoginAuth(p)
        \/ LoginRecord(p)
        \/ LoginTouch(p)
        \/ LoginTouchFail(p)
        \/ LoginRemaining(p)
        \/ \E pw \in {P_1, P_2} : AuthRequestStart(p, S_a, pw)
        \/ AuthRequestLookup(p)
        \/ AuthRequestTouch(p)
        \/ AuthRequestTouchFail(p)
        \/ UploadStart(p, S_a, P_1, B_1, SID_1, K_1)
        \/ UploadAuth(p)
        \/ UploadExists(p)
        \/ UploadMkdir(p)
        \/ UploadInsert(p)
        \/ UploadSave(p)
        \/ UploadCount(p)
        \/ UploadTouch(p)
        \/ UploadTouchFail(p)
        \/ Respond(p)

SpecTouch == InitStore /\ [][NextTouch]_vars

\* One client of the account who tries passcodes through /login, through a
\* gated request and through /upload, all within one 24-hour window.
NextGuess ==
    \E p \in {"t1"} :
        \/ \E pw \in {P_1, P_2} : LogRoom(MaxLogGuess) /\ LoginStart(p, S_a, pw)
        \/ LoginCheck(p)
        \/ LoginLimited(p)
        \/ LoginAuth(p)
        \/ LoginRecord(p)
        \/ LoginTouch(p)
        \/ LoginRemaining(p)
        \/ \E pw \in {P_1, P_2} : AuthRequestStart(p, S_a, pw)
        \/ AuthRequestLookup(p)
        \/ AuthRequestTouch(p)
        \/ UploadStart(p, S_a, P_2, B_1, SID_1, K_1)
        \/ UploadAuth(p)
        \/ Respond(p)

SpecGuess == InitStore /\ [][NextGuess]_vars

\* ------------------------------------------------ paths with components
\* session ids that are paths: the parent, the directory itself, the
\* directory of another user and a session in it
SID_up == <<".", ".">>
SID_dot == <<".">>
SID_u1 == <<".", ".", "/", "u", "1">>
SID_u2 == <<".", ".", "/", "u", "2">>
SID_u2a == <<".", ".", "/", "u", "2", "/", "a">>

\* the text of a user id, the name of the user's directory in UPLOAD_FOLDER
IdText(user_id) ==
    CASE user_id = "u1" -> <<"u", "1">>
      [] user_id = "u2" -> <<"u", "2">>
      [] user_id = "u3" -> <<"u", "3">>
      [] user_id = "u4" -> <<"u", "4">>
      [] OTHER -> <<"L", "1">>

\* the components of a path between the separators
RECURSIVE SplitPath(_)
SplitPath(s) ==
    IF \A i \in 1..Len(s) : s[i] # "/" THEN <<s>>
    ELSE LET i == CHOOSE k \in 1..Len(s) :
                     s[k] = "/" /\ \A j \in 1..(k - 1) : s[j] # "/"
         IN <<SubSeq(s, 1, i - 1)>> \o SplitPath(SubSeq(s, i + 1, Len(s)))

\* the directory below UPLOAD_FOLDER named by dirs is on disk: <<>> is
\* UPLOAD_FOLDER (lines 22-23), <<d>> a user's directory, <<d, s>> a session
\* directory
DirExists(dirs) ==
    \/ dirs = <<>>
    \/ Len(dirs) = 1 /\ \E u \in user_folders : IdText(u) = dirs[1]
    \/ Len(dirs) = 2 /\ \E sf \in session_folders :
                           IdText(sf[1]) = dirs[1] /\ sf[2] = dirs[2]

\* the lookup of a relative path by the operating system, from the
\* directory dirs on: '.' stays, '..' is the parent, a name is an entry
RECURSIVE WalkPath(_, _)
WalkPath(dirs, comps) ==
    IF comps = <<>> THEN [found |-> DirExists(dirs), outside |-> FALSE, dirs |-> dirs]
    ELSE LET c == Head(comps) IN
         IF c = <<>> THEN WalkPath(dirs, Tail(comps))
         ELSE IF c \in {<<".">>, <<".", ".">>} /\ ~DirExists(dirs)
         THEN [found |-> FALSE, outside |-> FALSE, dirs |-> dirs]
         ELSE IF c = <<".">> THEN WalkPath(dirs, Tail(comps))
         ELSE IF c = <<".", ".">>
         THEN IF dirs = <<>>
              THEN [found |-> FALSE, outside |-> TRUE, dirs |-> dirs]
              ELSE WalkPath(SubSeq(dirs, 1, Len(dirs) - 1), Tail(comps))
         ELSE WalkPath(Append(dirs, c), Tail(comps))

\* os.path.join(os.path.join(UPLOAD_FOLDER, user_id), session_id) as the
\* operating system resolves it
SessionPath(user_id, session_id) ==
    WalkPath(<<IdText(user_id)>>, SplitPath(session_id))

\* the session directories and the files in the tree below dirs
FoldersBelow(dirs) ==
    {sf \in session_folders :
        \/ dirs = <<>>
        \/ Len(dirs) = 1 /\ IdText(sf[1]) = dirs[1]
        \/ Len(dirs) = 2 /\ IdText(sf[1]) = dirs[1] /\ sf[2] = dirs[2]}
FilesBelow(dirs) ==
    {f \in chunk_files : <<f.user_id, f.session_id>> \in FoldersBelow(dirs)}

\* delete_video lines 931-966 for a session id that is a path below
\* UPLOAD_FOLDER: shutil.rmtree removes the tree at the resolved path; its
\* last step, the rmdir of the path itself, raises when the path ends in
\* '.' or '..', after the content has been removed, and lines 963-966
\* answer 500; otherwise the DELETE follows
DeleteTree(p, session_id) ==
    /\ Gated(p)
    /\ session_id # <<>>
    /\ session_id[1] # "/"
    /\ LET user_id == th[p].resp.user_id
           path == SessionPath(user_id, session_id)
           comps == SplitPath(session_id)
           dotted == comps[Len(comps)] \in {<<".">>, <<".", ".">>}
       IN /\ ~path.outside
          /\ Len(path.dirs) <= 2
          /\ IF ~path.found
             THEN /\ th' = [th EXCEPT ![p] =
                        [Idle EXCEPT !.pc = "done", !.op = "delete",
                                     !.email = th[p].email,
                                     !.resp = Resp(404, "NotFound")]]
                  /\ UNCHANGED <<user_folders, session_folders, chunk_files,
                                 rmtree_failed>>
             ELSE /\ chunk_files' = chunk_files \ FilesBelow(path.dirs)
                  /\ session_folders' =
                        session_folders \ {sf \in FoldersBelow(path.dirs) :
                                              ~(dotted /\ Len(path.dirs) = 2)}
                  /\ user_folders' =
                        {u \in user_folders :
                            ~(\/ path.dirs = <<>>
                              \/ ~dotted /\ path.dirs = <<IdText(u)>>)}
                  /\ IF dotted
                     THEN /\ rmtree_failed' =
                                rmtree_failed \cup {<<user_id, session_id>>}
                          /\ th' = [th EXCEPT ![p] =
                                [Idle EXCEPT !.pc = "done", !.op = "delete",
                                    !.email = th[p].email,
                                    !.session_id = session_id,
                                    !.resp = [Resp(500, "Failed") EXCEPT
                                                 !.user_id = user_id]]]
                     ELSE /\ UNCHANGED rmtree_failed
                          /\ th' = [th EXCEPT ![p] =
                                [Idle EXCEPT !.pc = "del_rows", !.op = "delete",
                                    !.email = th[p].email, !.user = user_id,
                                    !.session_id = session_id]]
    /\ UNCHANGED <<users, created_with, login_attempts, recording_sessions,
                   saved, dbLegacy, now, tzOffset>>

\* Two accounts, each with one session of one chunk on disk, and one
\* client who deletes with session ids that are names and paths.
InitPaths ==
    /\ now = 0
    /\ tzOffset = 0
    /\ users = {[UserRow("u1", S_a, N_n, hash_password(P_1, "s1"), "s1")
                    EXCEPT !.last_login = 0],
                [UserRow("u2", S_c, N_n, hash_password(P_2, "s2"), "s2")
                    EXCEPT !.last_login = 0]}
    /\ created_with = ("u1" :> P_1 @@ "u2" :> P_2)
    /\ user_folders = {"u1", "u2"}
    /\ login_attempts = <<>>
    /\ recording_sessions = <<[SessionRow("u1", SID_1) EXCEPT !.chunk_count = 1],
                              [SessionRow("u2", SID_1) EXCEPT !.chunk_count = 1]>>
    /\ session_folders = {<<"u1", SID_1>>, <<"u2", SID_1>>}
    /\ chunk_files = {ChunkFile(u, SID_1, ChunkFilename(K_1, Strftime(0)),
                                B_1, TRUE, K_1) : u \in {"u1", "u2"}}
    /\ saved = {}
    /\ rmtree_failed = {}
    /\ backup_exists = FALSE
    /\ users_old_pin_backup = <<>>
    /\ recording_sessions_old_backup = <<>>
    /\ th = [p \in Procs |-> Idle]

PathIds == {SID_1, SID_2, SID_up, SID_dot, SID_u1, SID_u2, SID_u2a}

NextPaths ==
    \E p \in {"t1"} :
        \/ \E e \in {S_a, S_c}, pw \in {P_1, P_2} : AuthRequestStart(p, e, pw)
        \/ AuthRequestLookup(p)
        \/ AuthRequestTouch(p)
        \/ \E session_id \in PathIds : DeleteTree(p, session_id)
        \/ DeleteRows(p)
        \/ Respond(p)

SpecPaths == InitPaths /\ [][NextPaths]_vars

\* delete_video lines 949-956 raise sqlite3.OperationalError (the database
\* is locked or cannot be written) after shutil.rmtree has removed the
\* directory: nothing is deleted from recording_sessions and lines 963-966
\* answer 500
DeleteRowsFail(p) ==
    /\ th[p].pc = "del_rows"
    /\ Reply(p, [Resp(500, "Failed") EXCEPT !.user_id = th[p].user])
    /\ UNCHANGED <<users, created_with, user_folders, login_attempts,
                   recording_sessions, dbLegacy, uploads, now, tzOffset>>

\* One client of the account: uploads into a session and deletions of it
\* whose DELETE FROM recording_sessions may fail.
NextRows ==
    \E p \in {"t1"} :
        \/ \E k \in {K_1, K_2} :
              /\ Len(recording_sessions) < MaxRows
              /\ UploadStart(p, S_a, P_1, B_1, SID_1, k)
        \/ UploadAuth(p)
        \/ UploadExists(p)
        \/ UploadMkdir(p)
        \/ UploadInsert(p)
        \/ UploadSave(p)
        \/ UploadCount(p)
        \/ UploadTouch(p)
        \/ AuthRequestStart(p, S_a, P_1)
        \/ AuthRequestLookup(p)
        \/ AuthRequestTouch(p)
        \/ DeleteFiles(p, SID_1)
        \/ DeleteRows(p)
        \/ DeleteRowsFail(p)
        \/ Respond(p)

SpecRows == InitStore /\ [][NextRows]_vars

\* storage_limit values of the request body: absent (the default 1200),
\* the limits of the three tiers, and others
LimitInputs == {1200, 72000, 720000, 0, 999999}

\* Subscription updates of the account with any storage_limit in the body
\* and storage queries, by two request threads.
NextEcho ==
    \E p \in Procs :
        \/ AuthRequestStart(p, S_a, P_1)
        \/ AuthRequestLookup(p)
        \/ AuthRequestTouch(p)
        \/ \E tier \in {"free", "premium", "pro", "gold"},
              storage_limit \in LimitInputs :
              UpdateSubscriptionStart(p, TRUE, tier, storage_limit, <<>>, "")
        \/ UpdateSubscriptionStore(p)
        \/ StorageScan(p)
        \/ StorageStore(p)
        \/ Respond(p)

SpecEcho == InitStore /\ [][NextEcho]_vars

\* ------------------------------------------------------------------ claims
\* failed attempts for the e-mail stamped in the 24 hours up to the UTC
\* instant q: q - 24h < attempt_time <= q
WindowFailures(email, q) ==
    Cardinality({i \in 1..Len(login_attempts) :
        /\ login_attempts[i].email = email
        /\ login_attempts[i].success = 0
        /\ q - Day < login_attempts[i].attempt_time
        /\ login_attempts[i].attempt_time <= q})

LoggedEmails == {login_attempts[i].email : i \in 1..Len(login_attempts)}

\* C1: whatever the interleaving of concurrent logins for one e-mail, no
\* 24-hour window holds more than 5 failed credential comparisons (recorded
\* failed attempts).
C1_AtMostFiveFailuresPerWindow ==
    \A e \in LoggedEmails : \A q \in 0..MaxTime :
        WindowFailures(e, q) <= MaxAttempts

\* C2: once 5 failed logins of the e-mail lie within the last 24 hours, a
\* login that reaches the rate-limit check is rejected without a credential
\* comparison, and the rejection reports remaining = 0.
C2_SixthLoginIsRateLimited ==
    [][\A p \in Procs :
        /\ (/\ th[p].pc = "login_check"
            /\ th'[p].pc # "login_check"
            /\ WindowFailures(th[p].email, now) >= MaxAttempts)
           => th'[p].pc = "login_limited"
        /\ (/\ th[p].pc = "login_limited"
            /\ th'[p].pc = "done"
            /\ WindowFailures(th[p].email, now) >= MaxAttempts)
           => th'[p].resp = LimitedResp(0)]_vars

\* C3: at every instant the tally that checkAllowed and remaining use is the
\* number of failed attempts stamped within the trailing 24 hours.
C3_TallyIsTrailingDay ==
    \A e \in LoggedEmails :
        /\ check_rate_limit(e) <=> (WindowFailures(e, now) < MaxAttempts)
        /\ get_remaining_attempts(e) = Max(0, MaxAttempts - WindowFailures(e, now))

\* C4: a rejected login appends no attempt, and a login is let through to the
\* credential comparison as soon as fewer than 5 failed attempts lie within
\* the last 24 hours.
C4_LockoutEnds ==
    [][\A p \in Procs :
        /\ (th[p].pc = "login_limited" /\ th'[p].pc = "done")
           => login_attempts' = login_attempts
        /\ (/\ th[p].pc = "login_check"
            /\ th'[p].pc # "login_check"
            /\ WindowFailures(th[p].email, now) < MaxAttempts)
           => th'[p].pc = "login_auth"]_vars

\* C5: a successful login appends one attempt row with success = 1 and
\* changes no failure tally: remaining is what it was, whatever the query
\* instant; and with 5 failed attempts in the window the next login is
\* rejected however many successes are logged between them.
C5_SuccessKeepsTally ==
    [][\A p \in Procs :
        /\ (th[p].pc = "login_record" /\ th'[p].pc = "login_touch")
           => /\ Len(login_attempts') = Len(login_attempts) + 1
              /\ login_attempts'[Len(login_attempts')].success = 1
              /\ SubSeq(login_attempts', 1, Len(login_attempts)) = login_attempts
              /\ get_remaining_attempts(th[p].email)'
                    = get_remaining_attempts(th[p].email)
              /\ \A q \in 0..MaxTime :
                    WindowFailures(th[p].email, q)' = WindowFailures(th[p].email, q)
        /\ (/\ th[p].pc = "login_check"
            /\ th'[p].pc # "login_check"
            /\ WindowFailures(th[p].email, now) >= MaxAttempts)
           => th'[p].pc = "login_limited"]_vars

\* a registered account has 5 failed attempts and a success among them, and a
\* further login has been rejected as rate limited
C5_Witness ==
    \E p \in Procs :
        /\ th[p].pc = "done" /\ th[p].op = "login"
        /\ th[p].resp = LimitedResp(0)
        /\ \E i, j \in 1..Len(login_attempts) :
              /\ i < j
              /\ login_attempts[i].success = 1
              /\ login_attempts[j].success = 0
        /\ \E i, j \in 1..Len(login_attempts) :
              /\ i < j
              /\ login_attempts[i].success = 0
              /\ login_attempts[j].success = 1

\* C6: the answer of checkAttempts is consistent: rateLimited iff
\* remaining = 0, with 0 <= remaining <= 5.
C6_CheckAttemptsConsistent ==
    \A p \in Procs :
        (th[p].pc = "done" /\ th[p].op = "check_attempts" /\ th[p].resp.status = 200)
        => /\ th[p].resp.remaining \in 0..MaxAttempts
           /\ th[p].resp.rate_limited <=> (th[p].resp.remaining = 0)

\* the e-mails and passcodes a handler holds after parsing a request
StrippedEmails == {Strip(e) : e \in EmailInputs} \ {<<>>}
LoweredEmails == {Lower(e) : e \in StrippedEmails}
StrippedPasscodes == {Strip(pw) : pw \in PasscodeInputs} \ {<<>>}

\* a row for the e-mail exists that was created with the passcode
Registered(email, password) ==
    \E u \in users : u.email = email /\ created_with[u.user_id] = password

UsersWithout(email) == {u \in users : u.email # email}

\* C7: with a passcode that is not the account's, login and the
\* authentication gate answer exactly as they would if no row existed for the
\* e-mail: same response, same remaining count, same recorded attempt.
C7_NoExistenceLeak ==
    /\ \A e \in LoweredEmails, pw \in StrippedPasscodes :
          ~Registered(e, pw)
          => LoginOutcome(users, login_attempts, e, pw)
                = LoginOutcome(UsersWithout(e), login_attempts, e, pw)
    /\ \A e \in StrippedEmails, pw \in StrippedPasscodes :
          ~Registered(e, pw)
          => AuthOutcome(users, e, pw) = AuthOutcome(UsersWithout(e), e, pw)

\* a login with a wrong passcode for a registered e-mail has been answered
C7_Witness ==
    \E p \in Procs :
        /\ th[p].pc = "done" /\ th[p].op = "login"
        /\ th[p].resp.kind = "Unauthorized"
        /\ \E u \in users : u.email = th[p].email

\* C8: authenticate(email, passcode) returns the user iff a row with that
\* e-mail exists and the passcode is the one the row was created with;
\* verification of that passcode succeeds with the stored salt and digest and
\* fails with another salt or with the digest of another passcode.
C8_AuthenticateIffCredentials ==
    /\ \A e \in StrippedEmails \cup LoweredEmails, pw \in StrippedPasscodes :
          /\ get_user_by_email_password(e, pw) # NULL <=> Registered(e, pw)
          /\ \A u \in users :
                (u.email = e /\ created_with[u.user_id] = pw)
                => get_user_by_email_password(e, pw) = u.user_id
    /\ \A u \in users :
          LET pw == created_with[u.user_id] IN
          /\ verify_password(pw, u.password_hash, u.salt)
          /\ \A s \in (Salts \cup {"s0"}) \ {u.salt} :
                ~verify_password(pw, u.password_hash, s)
          /\ \A other \in StrippedPasscodes \ {pw} :
                /\ ~verify_password(pw, hash_password(other, u.salt), u.salt)
                /\ ~verify_password(other, u.password_hash, u.salt)

\* two accounts exist and a login with the passcode of one has succeeded
C8_Witness ==
    /\ Cardinality(users) = 2
    /\ \E p \in Procs :
          /\ th[p].pc = "done" /\ th[p].op = "login" /\ th[p].resp.kind = "Ok"
          /\ \E u \in users : u.user_id = th[p].resp.user_id /\ u.email = th[p].email

\* C9: with the passcode of a registered account, login and the
\* authentication gate succeed for every letter-casing of the e-mail.
C9_AnyCasingAuthenticates ==
    [][\A p \in Procs :
        /\ (/\ th[p].pc = "auth_lookup"
            /\ th'[p].pc # "auth_lookup"
            /\ Registered(Lower(th[p].email), th[p].password))
           => th'[p].pc = "auth_touch"
        /\ (/\ th[p].pc = "login_auth"
            /\ th'[p].pc = "login_record"
            /\ Registered(Lower(th[p].email), th[p].password))
           => th'[p].user # NULL]_vars

\* C10: every user row was created with a passcode of exactly 6 digits
\* (digits as str.isdigit() counts them).
C10_PasscodesAreSixDigits ==
    \A u \in users :
        /\ Len(created_with[u.user_id]) = PasscodeLen
        /\ IsDigitStr(created_with[u.user_id])

\* C11: no two user rows share an e-mail, whatever the interleaving of
\* concurrent registrations and migrations for it: the calls answered with a
\* user id for one e-mail are at most one, and that id is the id of the only
\* row with the e-mail.
C11_EmailUnique ==
    /\ \A u, v \in users : u.email = v.email => u = v
    /\ \A p \in Procs :
          (th[p].pc = "done" /\ th[p].resp.status = 201)
          => /\ \E u \in users :
                   u.user_id = th[p].resp.user_id /\ u.email = th[p].email
             /\ \A q \in Procs \ {p} :
                   ~(/\ th[q].pc = "done"
                     /\ th[q].resp.status = 201
                     /\ th[q].email = th[p].email)

\* two calls raced for one e-mail: one was answered with the user id, the
\* INSERT of the other was refused by the constraint
C11_Witness ==
    \E p, q \in Procs :
        /\ th[p].pc = "done" /\ th[p].resp.status = 201
        /\ th[q].pc = "done" /\ th[q].resp.kind \in {"CreateFailed", "Failed"}
        /\ th[q].op \in {"register", "migrate"}
        /\ th[q].email = th[p].email
        /\ Cardinality({u \in users : u.email = th[p].email}) = 1

\* every row has one of the three tiers, a new row has the tier free, and a
\* handler that was sent an unknown tier stores update_default
\* (update_subscription) or demo_default (demo_switch_tier)
TierRule(update_default, demo_default) ==
    /\ \A u \in users' : u.subscription_tier \in {"free", "premium", "pro"}
    /\ \A u \in users' :
          u.user_id \notin {v.user_id : v \in users} => u.subscription_tier = "free"
    /\ \A p \in Procs : \A u \in users' :
          (/\ th[p].pc \in {"us_store", "ds_update"}
           /\ th'[p].pc = "done"
           /\ u.user_id = th[p].user
           /\ th[p].tier \notin {"free", "premium", "pro"})
          => u.subscription_tier = IF th[p].pc = "us_store" THEN update_default
                                   ELSE demo_default

\* C12 as stated: every user's tier is one of free, premium, pro; a new user
\* starts as free; update_subscription and every other handler that writes a
\* tier store free when they are given an unknown tier.
C12_UnknownTierStoredAsFree == [][TierRule("free", "free")]_vars

\* C12 as amended: every user's tier is one of free, premium, pro; a new
\* user starts as free; update_subscription stores free when it is given an
\* unknown tier, and demo_switch_tier stores premium.
C12_TierIsValid == [][TierRule("free", "premium")]_vars

\* update_subscription has answered a request for the tier gold, and the
\* row of the account holds free
C12_Witness ==
    \E p \in Procs :
        /\ th[p].pc = "done" /\ th[p].op = "update_subscription"
        /\ th[p].resp.status = 200
        /\ th[p].tier = "gold"
        /\ th[p].resp.body.tier = "free"
        /\ \E u \in users :
              /\ u.user_id = th[p].resp.user_id
              /\ u.subscription_tier = "free"
              /\ u.subscription_expires_at = E_1

\* the (user_id, session_id) pairs of the rows and directories
SessionKeys ==
    {<<recording_sessions[i].user_id, recording_sessions[i].session_id>> :
        i \in 1..Len(recording_sessions)} \cup session_folders

\* C13: there is at most one recording_sessions row per (user_id,
\* session_id) in every state, and once the requests have returned every
\* session that uploads have created has exactly one row.
C13_OneRowPerSession ==
    /\ \A key \in SessionKeys : Cardinality(SessionRows(key[1], key[2])) <= 1
    /\ (\A p \in Procs : th[p].pc \in {"idle", "done"})
       => \A key \in session_folders :
             Cardinality(SessionRows(key[1], key[2])) = 1

\* no upload is between its first statement and its response
UploadsReturned == \A p \in Procs : th[p].pc \in {"idle", "done"}

\* max(0, the chunk indices of the saves of the session that ran to their end)
MaxSavedIndex(user_id, session_id) ==
    LET indices == {IntOf(k[3]) : k \in {t \in saved :
                       t[1] = user_id /\ t[2] = session_id /\ IsIntStr(t[3])}}
    IN IF indices = {} THEN 0
       ELSE Max(0, CHOOSE m \in indices : \A n \in indices : n <= m)

\* C14: two concurrent first-chunk uploads for one new session both succeed:
\* no upload is answered with the error of the lost race to create the
\* session, and the file of every upload answered 200 is in the session.
C14_BothFirstChunksSucceed ==
    \A p \in Procs :
        (th[p].pc = "done" /\ th[p].op = "upload")
        => /\ th[p].resp.kind # "Failed"
           /\ th[p].resp.status = 200
              => th[p].resp.body.filename
                    \in VideoFiles(th[p].resp.user_id, th[p].resp.body.session_id)

\* C15: once the uploads for a session have returned, its chunk_count is
\* max(0, the indices of the uploads whose write succeeded); a failed write
\* leaves chunk_count as it is, and chunk_count never decreases.
C15_ChunkCountIsMaxIndex ==
    [][/\ UploadsReturned'
          => \A i \in 1..Len(recording_sessions') :
                recording_sessions'[i].chunk_count
                   = MaxSavedIndex(recording_sessions[i].user_id,
                                   recording_sessions[i].session_id)'
       /\ \A i \in 1..Len(recording_sessions) :
             /\ i <= Len(recording_sessions')
             /\ recording_sessions'[i].chunk_count
                   >= recording_sessions[i].chunk_count
       /\ \A p \in Procs :
             (/\ th[p].pc = "up_save" /\ th'[p].pc = "done")
             => recording_sessions' = recording_sessions]_vars

\* C16: a chunk file that has been stored keeps its content: no later upload
\* writes other bytes to its path.
C16_ChunkImmutable ==
    [][\A f \in chunk_files : \A g \in chunk_files' :
          (/\ f.whole
           /\ g.user_id = f.user_id
           /\ g.session_id = f.session_id
           /\ g.name = f.name)
          => g.content = f.content]_vars

\* the file of the name in the session
FileNamed(user_id, session_id, name) ==
    CHOOSE f \in chunk_files :
        f.user_id = user_id /\ f.session_id = session_id /\ f.name = name

\* C17: the chunk list of a download is in ascending order of the chunk
\* indices, whatever indices are stored and in whatever order they arrived.
C17_DownloadInIndexOrder ==
    \A p \in Procs :
        (th[p].pc = "done" /\ th[p].op = "download" /\ th[p].resp.status = 200)
        => LET chunks == th[p].resp.body.chunks
               file(i) == FileNamed(th[p].resp.user_id,
                                    th[p].resp.body.session_id, chunks[i])
               stored(i) == file(i).whole /\ IsIntStr(file(i).chunk_number)
           IN \A i, j \in 1..Len(chunks) :
                 (i < j /\ stored(i) /\ stored(j))
                 => IntOf(file(i).chunk_number) <= IntOf(file(j).chunk_number)

\* C18: an upload whose chunk number is not an integer is refused: it
\* creates no session (it never gets past os.makedirs), stores no file and
\* is not answered 200.
C18_NonIntegerChunkRefused ==
    /\ \A p \in Procs :
          /\ th[p].pc = "up_insert" => IsIntStr(th[p].chunk_number)
          /\ (th[p].pc = "done" /\ th[p].op = "upload" /\ th[p].resp.status = 200)
             => IsIntStr(th[p].resp.body.chunk_number)
    /\ \A f \in chunk_files : IsIntStr(f.chunk_number)

\* C19: every file that get_storage_info, list_videos and download_video
\* count was written to its end: a failed write leaves no file they see.
C19_NoPartialChunkListed ==
    \A f \in chunk_files :
        f.name \in VideoFiles(f.user_id, f.session_id) => f.whole

\* C20: the quota is enforced: the estimated usage of every user (15 seconds
\* per stored chunk file, as get_storage_info counts it) is at most the
\* limit of the user's tier, and no storage answer reports more.
C20_UsageWithinTierLimit ==
    /\ \A u \in users :
          StorageSeconds(u.user_id)
             <= get_storage_limit_for_tier(TierOf(u.user_id))
    /\ \A p \in Procs :
          (th[p].pc = "done" /\ th[p].op = "storage_info")
          => th[p].resp.body.storage_used <= th[p].resp.body.storage_limit

\* C21: get_storage_info reports 15 seconds for every chunk file stored in
\* the sessions the user owns, counted when the handler reads the
\* directories, and the storage_used it writes to the user's row is the
\* value it has just computed and reports.
OwnedFiles(user_id) ==
    {f \in chunk_files :
        /\ f.user_id = user_id
        /\ EndsWithMov(f.name)
        /\ SessionRows(user_id, f.session_id) # {}}

C21_UsageIsFifteenPerFile ==
    [][\A p \in Procs :
          /\ (th[p].pc # "st_store" /\ th'[p].pc = "st_store")
                => th'[p].total_storage_seconds
                      = ChunkDuration * Cardinality(OwnedFiles(th'[p].user))
          /\ (th[p].pc = "st_store" /\ th'[p].pc = "done")
                => /\ th'[p].resp.body.storage_used = th[p].total_storage_seconds
                   /\ \A u \in users' :
                         u.user_id = th[p].user
                            => u.storage_used = th[p].total_storage_seconds]_vars

\* C22: the limit of free is 1200 seconds, of premium 72000, of pro 720000,
\* of every other tier text the free limit 1200; it is never zero.
C22_TierLimit ==
    \A p \in Procs :
        (th[p].pc = "done" /\ th[p].op = "storage_limit")
            => /\ th[p].tier = "free" => th[p].storage_limit = 1200
               /\ th[p].tier = "premium" => th[p].storage_limit = 72000
               /\ th[p].tier = "pro" => th[p].storage_limit = 720000
               /\ th[p].tier \notin {"free", "premium", "pro"}
                     => th[p].storage_limit = 1200
               /\ th[p].storage_limit # 0

\* the limits of an unknown tier and of premium have been computed
C22_Witness ==
    /\ th["t1"].pc = "done" /\ th["t1"].op = "storage_limit"
    /\ th["t1"].tier = "gold" /\ th["t1"].storage_limit = 1200
    /\ th["t2"].pc = "done" /\ th["t2"].op = "storage_limit"
    /\ th["t2"].tier = "premium" /\ th["t2"].storage_limit = 72000

\* C23: every entry of the answer of list_videos reports as chunk_count the
\* number of files in the session's directory when the handler reads it,
\* whatever the chunk_count column of the row holds.
C23_ListCountsFiles ==
    [][\A p \in Procs :
          (th[p].pc = "ls_scan" /\ th'[p].pc = "done")
             => \A i \in 1..Len(th'[p].resp.body) :
                   th'[p].resp.body[i].chunk_count
                      = Cardinality(SessionFiles(th[p].user,
                                                 th'[p].resp.body[i].session_id))]_vars

\* a listing has reported one file for a session whose row counts two chunks
C23_Witness ==
    \E p \in Procs :
        /\ th[p].pc = "done" /\ th[p].op = "videos"
        /\ th[p].resp.body = <<[session_id |-> SID_1, chunk_count |-> 1]>>
        /\ Cardinality(SessionFiles("u1", SID_1)) = 1
        /\ recording_sessions
              = <<[user_id |-> "u1", session_id |-> SID_1, created_at |-> 0,
                   chunk_count |-> 2]>>

\* C24: the answer of list_videos holds an entry for every row of
\* recording_sessions of the user, and for these only, the newest first.
SessionIds(rows) == [i \in 1..Len(rows) |-> rows[i].session_id]

C24_ListReturnsEveryRow ==
    [][\A p \in Procs :
          /\ (Gated(p) /\ th'[p].pc = "done" /\ th'[p].op = "videos")
                => SessionIds(th'[p].resp.body)
                      = SessionIds(NewestFirst(UserSessionRows(th[p].resp.user_id)))
          /\ (/\ th[p].pc = "ls_scan" /\ th'[p].pc = "done"
              /\ th[p].sessions = NewestFirst(UserSessionRows(th[p].user)))
                => SessionIds(th'[p].resp.body) = SessionIds(th[p].sessions)]_vars

C26_FailedRemovalIsRetriable ==
    [][\A p \in {"t1"} :
          /\ (/\ Gated(p) /\ th'[p].pc = "done" /\ th'[p].op = "delete"
              /\ th'[p].resp.status = 500)
                => /\ recording_sessions' = recording_sessions
                   /\ <<th[p].resp.user_id, th'[p].session_id>> \in session_folders'
          /\ (th[p].pc = "del_rows" /\ th'[p].pc = "done")
                => /\ <<th[p].user, th[p].session_id>> \notin session_folders'
                   /\ \A f \in chunk_files' :
                         ~(f.user_id = th[p].user
                           /\ f.session_id = th[p].session_id)
                   /\ \A i \in 1..Len(recording_sessions') :
                         ~(recording_sessions'[i].user_id = th[p].user
                           /\ recording_sessions'[i].session_id
                                 = th[p].session_id)]_vars

\* a removal of the session's files has failed, and a later delete_video of
\* the session has answered 200, with neither files nor rows left
C26_Witness ==
    /\ <<"u1", SID_1>> \in rmtree_failed
    /\ saved # {}
    /\ th["t1"].pc = "done" /\ th["t1"].op = "delete"
    /\ th["t1"].resp.status = 200
    /\ SessionFiles("u1", SID_1) = {}
    /\ SessionRows("u1", SID_1) = {}

\* C27: update_subscription called with a transaction_jws that
\* verify_app_store_receipt rejects answers "Invalid subscription receipt"
\* and leaves the table users as it is; called with none or with one that is
\* accepted, it writes the tier (free for an unknown one) and the expiry it
\* was given (none for an empty one) to the row of the caller and leaves
\* every other row as it is.
C27_SubscriptionUpdate ==
    [][\A p \in Procs :
          /\ (Gated(p) /\ th'[p].op = "update_subscription")
                => \A tier \in {"pro", "gold"}, jws \in {<<>>, J_ok, J_bad},
                      expires_at \in {"", E_1} :
                      UpdateSubscriptionStart(p, TRUE, tier, 1200, jws, expires_at)
                         => IF jws # <<>> /\ ~verify_app_store_receipt(jws)
                            THEN /\ th'[p].pc = "done"
                                 /\ th'[p].resp.kind = "InvalidReceipt"
                                 /\ users' = users
                            ELSE /\ th'[p].pc = "us_store"
                                 /\ th'[p].user = th[p].resp.user_id
                                 /\ th'[p].tier = tier
                                 /\ th'[p].expires_at = expires_at
                                 /\ users' = users
          /\ (th[p].pc = "us_store" /\ th'[p].pc = "done")
                => users' =
                     {IF u.user_id = th[p].user
                      THEN [u EXCEPT
                              !.subscription_tier =
                                  IF th[p].tier \in {"free", "premium", "pro"}
                                  THEN th[p].tier ELSE "free",
                              !.subscription_expires_at =
                                  IF th[p].expires_at = "" THEN NULL
                                  ELSE th[p].expires_at]
                      ELSE u : u \in users}]_vars

\* the account is pro until E_1, another account exists, and an
\* update_subscription of the account with a rejected receipt has been
\* answered
C27_Witness ==
    \E p \in Procs :
        /\ th[p].pc = "done" /\ th[p].op = "update_subscription"
        /\ th[p].resp.kind = "InvalidReceipt"
        /\ \E u, v \in users :
              /\ u.email = th[p].email
              /\ u.subscription_tier = "pro"
              /\ u.subscription_expires_at = E_1
              /\ v.email # u.email
              /\ v.subscription_tier # "pro"

\* C28: migrate_pin_user called, with all four fields, with a PIN that
\* matches no archived row answers 404 and creates no user row, session row or directory; called
\* with a PIN that matches and an e-mail that is registered it answers 400
\* "Email already registered" and creates nothing; no step changes the
\* archive tables, and check_migration_available reports the number of
\* archived accounts there was at the start.
PinArchived(pin) ==
    \E i \in 1..Len(users_old_pin_backup) :
        hash_password(pin, users_old_pin_backup[i].salt)
            = users_old_pin_backup[i].pin_hash

CreatesNothing ==
    /\ users' = users
    /\ recording_sessions' = recording_sessions
    /\ user_folders' = user_folders
    /\ session_folders' = session_folders

C28_MigrateRefusals ==
    [][/\ dbLegacy' = dbLegacy
       /\ \A p \in Procs :
          /\ (th[p].pc = "idle" /\ th'[p].op = "migrate")
                => \A pin \in PinInputs, e \in MigrateEmails :
                      MigrateStart(p, pin, e, P_2, N_n)
                         => IF ~PinArchived(Strip(pin))
                            THEN /\ th'[p].pc = "done"
                                 /\ th'[p].resp.kind = "NotFound"
                                 /\ CreatesNothing
                            ELSE IF \E u \in users : u.email = Lower(Strip(e))
                            THEN /\ th'[p].pc = "done"
                                 /\ th'[p].resp.kind = "Conflict"
                                 /\ CreatesNothing
                            ELSE th'[p].pc = "mig_insert"
          /\ (th[p].pc = "idle" /\ th'[p].op = "check_migration")
                => th'[p].resp.body.old_users_count
                      = IF backup_exists THEN Len(LegacyUsers) ELSE 0]_vars

\* a migration with a PIN of no archived account has been answered 404, one
\* with the archived PIN and a registered e-mail 400, and nothing but the
\* registered account exists
C28_Witness ==
    /\ backup_exists
    /\ th["t1"].pc = "done" /\ th["t1"].op = "migrate"
    /\ th["t1"].resp.kind = "NotFound"
    /\ th["t2"].pc = "done" /\ th["t2"].op = "migrate"
    /\ th["t2"].resp.kind = "Conflict"
    /\ {u.email : u \in users} = {S_a}
    /\ recording_sessions = <<>>
    /\ users_old_pin_backup = LegacyUsers
    /\ recording_sessions_old_backup = LegacySessions

\* C29: once migrate_pin_user has answered 201 the account of the e-mail has
\* the user_id of the archived account, every archived session row of that
\* user_id is a row of recording_sessions, and every answer of list_videos
\* for the account has an entry for each of these sessions.
ArchivedSessionIds(user_id) ==
    {recording_sessions_old_backup[i].session_id :
        i \in {j \in 1..Len(recording_sessions_old_backup) :
                  recording_sessions_old_backup[j].user_id = user_id}}

ArchivedUserIds ==
    {users_old_pin_backup[i].user_id : i \in 1..Len(users_old_pin_backup)}

C29_MigrationKeepsSessions ==
    /\ \A p \in Procs :
          (th[p].pc = "done" /\ th[p].op = "migrate" /\ th[p].resp.status = 201)
             => /\ th[p].resp.user_id \in ArchivedUserIds
                /\ \E u \in users :
                      u.email = th[p].email /\ u.user_id = th[p].resp.user_id
                /\ \A i \in 1..Len(recording_sessions_old_backup) :
                      recording_sessions_old_backup[i].user_id = th[p].resp.user_id
                         => \E j \in 1..Len(recording_sessions) :
                               recording_sessions[j]
                                  = recording_sessions_old_backup[i]
    /\ \A p \in Procs :
          (/\ th[p].pc = "done" /\ th[p].op = "videos"
           /\ th[p].resp.user_id \in ArchivedUserIds)
             => ArchivedSessionIds(th[p].resp.user_id)
                   \subseteq {th[p].resp.body[i].session_id :
                                 i \in 1..Len(th[p].resp.body)}

\* the archived account has been migrated to c@b.io and its listing shows
\* the archived session with its two chunks
C29_Witness ==
    /\ \E u \in users : u.email = S_c /\ u.user_id = "L1"
    /\ \E p \in Procs :
          /\ th[p].pc = "done" /\ th[p].op = "videos"
          /\ th[p].resp.user_id = "L1"
          /\ th[p].resp.body = <<[session_id |-> "old1", chunk_count |-> 2]>>

\* C30: a /register that has failed while the user's directory was being
\* made leaves no row of users for the e-mail, so that the same request can
\* succeed when it is made again.
C30_FailedRegistrationLeavesNothing ==
    \A p \in Procs :
        (th[p].pc = "done" /\ th[p].op = "register" /\ th[p].resp.status = 500)
           => \A u \in users : u.email # th[p].email

\* C31: a failure of the last-login update never changes the outcome: a
\* request whose credentials were accepted and that has reached the update
\* of last_login (in login, in the gate of an authenticated operation, in
\* upload) is answered with its success, the login with the user summary.
C31_TouchIsBestEffort ==
    [][\A p \in Procs :
          (th[p].pc \in {"login_touch", "auth_touch", "up_touch"}
             /\ th'[p].pc = "done")
          => (th'[p].resp.kind = "Ok" /\ th'[p].resp.user_id = th[p].user)]_vars

\* the step of thread p compares a passcode with the account's and finds it
\* wrong: line 460 of login_user, line 372 of require_auth, line 535 of
\* upload_video
WrongPasscodeCompared(p) ==
    \/ th[p].pc = "login_auth" /\ th'[p].pc = "login_record" /\ th'[p].user = NULL
    \/ th[p].pc = "auth_lookup" /\ th'[p].pc = "done" /\ th'[p].resp.status = 401
    \/ th[p].pc = "up_auth" /\ th'[p].pc = "done" /\ th'[p].resp.status = 401

\* C32: whichever operation compares the passcode (login, the gate of an
\* authenticated operation, upload), a wrong passcode is compared for an
\* e-mail only while fewer than 5 failed attempts of the e-mail are on
\* record for the last 24 hours: the attempt is checked against the rate
\* limiter, so a 6th wrong comparison within the window is not possible.
C32_EveryComparisonIsLimited ==
    [][\A p \in Procs :
          WrongPasscodeCompared(p)
          => FailedInLastDay(login_attempts, th[p].email) < MaxAttempts]_vars

\* C33: a deletion executed for the authenticated user U, whatever session
\* id the client chose, removes no directory and no file of another user,
\* and does not remove U's own directory.
C33_OwnNamespaceOnly ==
    [][\A p \in Procs :
          (Gated(p) /\ th'[p].op = "delete")
          => LET U == th[p].resp.user_id IN
             /\ \A f \in chunk_files : f.user_id # U => f \in chunk_files'
             /\ \A sf \in session_folders : sf[1] # U => sf \in session_folders'
             /\ \A V \in user_folders : V # U => V \in user_folders'
             /\ U \in user_folders => U \in user_folders']_vars

\* C34: a deletion answers NotFound only when recording_sessions holds no
\* row for the user and the session (SID_1, the one session of the run):
\* after a deletion whose row removal failed, the retry still finds the
\* session and removes the row.
C34_NotFoundMeansNoRow ==
    [][\A p \in Procs :
          (/\ Gated(p)
           /\ th'[p].op = "delete"
           /\ th'[p].pc = "done"
           /\ th'[p].resp.status = 404)
          => SessionRows(th[p].resp.user_id, SID_1) = {}]_vars

\* C35: the storage_limit in the answer of an accepted subscription update
\* is the limit of the tier the update stored for the user, whatever
\* storage_limit the request carried; it is the limit the next storage
\* query reports.
C35_ReturnedLimitIsTierLimit ==
    [][\A p \in Procs :
          (th[p].pc = "us_store" /\ th'[p].pc = "done"
             /\ th'[p].resp.status = 200)
          => \A u \in users' :
                u.user_id = th[p].user
                => th'[p].resp.body.storage_limit
                      = get_storage_limit_for_tier(u.subscription_tier)]_vars

\* the archived account with this user id has been migrated: a row of
\* users carries the id
Migrated(user_id) == \E u \in users : u.user_id = user_id

\* the rows of recording_sessions that carry the archived row's user and
\* session
CopiesOf(r) ==
    {i \in 1..Len(recording_sessions) :
        /\ recording_sessions[i].user_id = r.user_id
        /\ recording_sessions[i].session_id = r.session_id}

\* C36: an archived account is migrated at most once. Once a user record
\* carries the archived user id, a migration that has matched the same PIN,
\* with any e-mail, sequential or concurrent with the first, adds no user
\* record and no session row; no two user records share a user id and no
\* archived session row has two copies in recording_sessions.
C36_MigratedAtMostOnce ==
    [][/\ \A p \in Procs :
            (th[p].pc = "mig_insert" /\ th'[p].pc = "done"
               /\ Migrated(th[p].user))
            => /\ users' = users
               /\ recording_sessions' = recording_sessions
               /\ th'[p].resp.status # 201
       /\ \A u \in users' : \A v \in users' : u.user_id = v.user_id => u = v
       /\ \A i \in 1..Len(recording_sessions_old_backup) :
             Cardinality(CopiesOf(recording_sessions_old_backup[i])') <= 1]_vars

\* the archived account has been migrated with its session row, and a
\* later migration with the same PIN and another e-mail has been refused
\* at the INSERT
C36_Witness ==
    \E p \in Procs :
        /\ th[p].pc = "done"
        /\ th[p].op = "migrate"
        /\ th[p].resp.status = 500
        /\ \E u \in users :
              /\ u.user_id \in ArchivedUserIds
              /\ u.email # th[p].email
        /\ \A u \in users : u.email # th[p].email
        /\ \A i \in 1..Len(recording_sessions_old_backup) :
              Cardinality(CopiesOf(recording_sessions_old_backup[i])) = 1

====
